---------------------------- MODULE Spec2Model ----------------------------
(***************************************************************************)
(* A model of ocipkg (src/ocipkg/src): the image-layout engine (OciDir and *)
(* OciArchive builders and readers, the copy routine), the identifier      *)
(* encodings (ImageName, Name, Reference) and the distribution client      *)
(* (bearer-token request wrapper, two-phase blob upload).                  *)
(*                                                                         *)
(* The specifications share the module's variables:                        *)
(*   Spec          image layouts: builders, readers, copy                  *)
(*   SpecBuild     one named builder, from new to build                    *)
(*   SpecName      identifier parsing and path encodings                   *)
(*   SpecClient    the HTTP client against a nondeterministic registry     *)
(*   SpecRemote    RemoteBuilder under copy and OciArtifactBuilder         *)
(*   SpecUnpack    Artifact::unpack into the local image directory         *)
(*   SpecAuth      stored credentials: append, load_all, Client::new       *)
(*   SpecDirs      the process-wide project directory                      *)
(*   SpecRunnable  RunnableBuilder                                         *)
(*   SpecReader    OciArchive readers over one file cursor                 *)
(*   SpecArtifact  OciArtifactBuilder                                      *)
(*   SpecLocal     the local image directory: image_dir, get_image_list    *)
(*   SpecFiles     artifact Builder::append_files and Artifact::files      *)
(*   SpecClients   two Client instances and their tokens                   *)
(*   SpecSave      stored credentials: add, save, load                     *)
(* A specification leaves the variables it does not use at their idle      *)
(* values.                                                                 *)
(*                                                                         *)
(* Bytes are sequences of naturals.  File-system and tar writes either     *)
(* take effect whole or fail without effect; every one of them may fail.   *)
(* SHA-256 is taken to be collision free: Sha256Hex is an injective map    *)
(* from byte strings to digit strings.                                     *)
(***************************************************************************)
EXTENDS Integers, Sequences, FiniteSets, TLC

VARIABLES
    fs,        \* layout: path -> absent | oci-dir (files) | tar file (entries)
    builder,   \* layout: the live OciDirBuilder / OciArchiveBuilder, if any
    img,       \* layout: the Image handle last returned by build / copy / open
    pc,        \* layout: position inside build / copy ("idle" between calls)
    ret,       \* layout: result of the last finished call
    cp,        \* layout: locals of the running copy / build
    hist,      \* layout: history of the calls made on the live builder
    nm,        \* name: the identifier under test and what was computed from it
    cl,        \* client: Client state, request in flight, wire log
    reg        \* client: what the registry will answer next

layoutVars == <<fs, builder, img, pc, ret, cp, hist>>
nameVars   == <<nm>>
clientVars == <<cl, reg>>
vars       == <<fs, builder, img, pc, ret, cp, hist, nm, cl, reg>>

\* Each specification's actions leave the other specifications' variables alone.
LayoutOnly == UNCHANGED <<nm, cl, reg>>

(***************************************************************************)
(* Bounds of the model.                                                    *)
(***************************************************************************)
MaxLayers == 2      \* layers per manifest
MaxAdds   == 2      \* direct add_blob calls on one builder

Ok(v)  == [ok |-> TRUE,  val |-> v]
Err(e) == [ok |-> FALSE, val |-> e]

RECURSIVE Flatten(_)
Flatten(ss) == IF ss = <<>> THEN <<>> ELSE Head(ss) \o Flatten(Tail(ss))

SeqsUpTo(S, n) == UNION { [1..k -> S] : k \in 0..n }

(***************************************************************************)
(* Digest (digest.rs).                                                     *)
(***************************************************************************)
\* The hex digest of a byte string: injective, never empty.
Sha256Hex(buf) == <<Len(buf)>> \o buf

from_buf_sha256(buf) == [algorithm |-> "sha256", encoded |-> Sha256Hex(buf)]

\* A path inside a layout: blobs/<algorithm>/<encoded>, index.json, oci-layout.
FilePath(name) == [top |-> name, algorithm |-> "", encoded |-> <<>>]
IndexPath     == FilePath("index.json")
OciLayoutPath == FilePath("oci-layout")

\* C1 mutant: the blob path leaves out the encoded part of the digest.
Digest_as_path_NoEncoded(digest) ==
    [top |-> "blobs", algorithm |-> digest.algorithm, encoded |-> <<>>]

\* digest.rs: Digest::as_path
Digest_as_path(digest) ==
    [top |-> "blobs", algorithm |-> digest.algorithm, encoded |-> digest.encoded]

(***************************************************************************)
(* Descriptors, manifests and their JSON text (oci_spec, serde_json).      *)
(* A descriptor is [digest, size]; a manifest [config, layers].  The JSON  *)
(* text of a manifest is the token 9 followed by each descriptor as        *)
(* <<algorithm code, size, length of encoded>> \o encoded.                 *)
(***************************************************************************)
Desc(digest, size) == [digest |-> digest, size |-> size]
DescOf(buf) == Desc(from_buf_sha256(buf), Len(buf))

AlgCode(a) == IF a = "sha256" THEN 0 ELSE 1
AlgName(c) == IF c = 0 THEN "sha256" ELSE "sha512"

DescJson(d) ==
    <<AlgCode(d.digest.algorithm), d.size, Len(d.digest.encoded)>> \o d.digest.encoded

to_string(manifest) ==
    <<9>> \o DescJson(manifest.config)
          \o Flatten([i \in 1..Len(manifest.layers) |-> DescJson(manifest.layers[i])])

\* The descriptors written from position o on; ok is FALSE when the text is cut.
RECURSIVE ParseDescs(_, _)
ParseDescs(b, o) ==
    IF o > Len(b) THEN [ok |-> TRUE, ds |-> <<>>]
    ELSE IF o + 2 > Len(b) \/ b[o] \notin {0, 1} \/ o + 2 + b[o + 2] > Len(b)
         THEN [ok |-> FALSE, ds |-> <<>>]
    ELSE LET n    == b[o + 2]
             d    == Desc([algorithm |-> AlgName(b[o]),
                           encoded |-> SubSeq(b, o + 3, o + 2 + n)], b[o + 1])
             rest == ParseDescs(b, o + 3 + n)
         IN  [ok |-> rest.ok, ds |-> <<d>> \o rest.ds]

from_slice(b) ==
    IF Len(b) = 0 \/ b[1] # 9 THEN Err("InvalidJson")
    ELSE LET r == ParseDescs(b, 2)
         IN  IF ~r.ok \/ r.ds = <<>> THEN Err("InvalidJson")
             ELSE Ok([config |-> r.ds[1], layers |-> Tail(r.ds)])

(***************************************************************************)
(* Identifiers (image_name.rs, distribution/name.rs, reference.rs).        *)
(* A string is a sequence of one-character strings.                        *)
(***************************************************************************)
MaxHostLen == 3     \* characters of a hostname
MaxRefLen  == 4     \* characters of a reference

LowerChars == {"a", "h"}
UpperChars == {"A", "D"}
DigitChars == {"0", "4", "8"}
AlnumChars == LowerChars \cup UpperChars \cup DigitChars

\* ASCII codes of the characters of the model.
AsciiChars == {"a", "h", "A", "D", "0", "4", "8", "_", ":", "%", "/", ".", "-", "+", "="}
AsciiOf(c) ==
    CASE c = "a" -> 97  [] c = "h" -> 104 [] c = "A" -> 65 [] c = "D" -> 68
      [] c = "0" -> 48  [] c = "4" -> 52  [] c = "8" -> 56 [] c = "_" -> 95
      [] c = ":" -> 58  [] c = "%" -> 37  [] c = "/" -> 47 [] c = "." -> 46
      [] c = "-" -> 45  [] c = "+" -> 43  [] c = "=" -> 61

\* The character of the byte n; "?" stands for every byte outside the model.
CharOf(n) ==
    IF \E c \in AsciiChars : AsciiOf(c) = n
    THEN CHOOSE c \in AsciiChars : AsciiOf(c) = n
    ELSE "?"

HexDigits == <<"0", "1", "2", "3", "4", "5", "6", "7", "8", "9",
               "A", "B", "C", "D", "E", "F">>
LowerHex  == <<"0", "1", "2", "3", "4", "5", "6", "7", "8", "9",
               "a", "b", "c", "d", "e", "f">>
IsHex(c)  == \E i \in 1..16 : HexDigits[i] = c \/ LowerHex[i] = c
HexVal(c) == (CHOOSE i \in 1..16 : HexDigits[i] = c \/ LowerHex[i] = c) - 1

\* str::contains, str::strip_prefix, str::split_once, str::replace, str::split
StartsWithAt(s, pat, i) ==
    /\ i + Len(pat) - 1 <= Len(s)
    /\ \A k \in 1..Len(pat) : s[i + k - 1] = pat[k]

Contains(s, pat) == \E i \in 1..Len(s) : StartsWithAt(s, pat, i)

Suffix(s, i) == SubSeq(s, i, Len(s))

\* The first position from i on where pat begins in s (0: none).
RECURSIVE Find(_, _, _)
Find(s, pat, i) ==
    IF i + Len(pat) - 1 > Len(s) THEN 0
    ELSE IF StartsWithAt(s, pat, i) THEN i
    ELSE Find(s, pat, i + 1)

RECURSIVE Replace(_, _, _)
Replace(s, pat, to) ==
    LET i == Find(s, pat, 1)
    IN  IF i = 0 THEN s
        ELSE SubSeq(s, 1, i - 1) \o to \o Replace(Suffix(s, i + Len(pat)), pat, to)

RECURSIVE Split(_, _)
Split(s, pat) ==
    LET i == Find(s, pat, 1)
    IN  IF i = 0 THEN <<s>>
        ELSE <<SubSeq(s, 1, i - 1)>> \o Split(Suffix(s, i + Len(pat)), pat)

RECURSIVE Join(_, _)
Join(ss, sep) ==
    IF ss = <<>> THEN <<>>
    ELSE IF Len(ss) = 1 THEN ss[1]
    ELSE ss[1] \o sep \o Join(Tail(ss), sep)

\* Option<u16> and its conversions: Display of a u16, str::parse::<u16>.
NoPort == [some |-> FALSE, val |-> 0]
SomePort(p) == [some |-> TRUE, val |-> p]

DecDigits == <<"0", "1", "2", "3", "4", "5", "6", "7", "8", "9">>
IsDigit(c) == \E i \in 1..10 : DecDigits[i] = c
DigitVal(c) == (CHOOSE i \in 1..10 : DecDigits[i] = c) - 1

RECURSIVE u16_to_string(_)
u16_to_string(n) ==
    IF n < 10 THEN <<DecDigits[n + 1]>>
    ELSE u16_to_string(n \div 10) \o <<DecDigits[(n % 10) + 1]>>

RECURSIVE DigitsVal(_, _)
DigitsVal(s, acc) ==
    IF s = <<>> THEN acc ELSE DigitsVal(Tail(s), 10 * acc + DigitVal(Head(s)))

parse_u16(s) ==
    LET d == IF s # <<>> /\ Head(s) = "+" THEN Tail(s) ELSE s
    IN  IF d = <<>> \/ \E i \in 1..Len(d) : ~IsDigit(d[i]) THEN Err("InvalidPort")
        ELSE IF Len(d) > 5 /\ \E i \in 1..(Len(d) - 5) : d[i] # "0" THEN Err("InvalidPort")
        ELSE IF DigitsVal(d, 0) > 65535 THEN Err("InvalidPort")
        ELSE Ok(DigitsVal(d, 0))


\* name.rs: NAME_RE, scanned left to right.  alnum: the last character read
\* was one of [a-z0-9]; the expression ends only there.
NameChar(c) == c \in LowerChars \cup DigitChars

RECURSIVE NameMatch(_, _, _)
NameMatch(s, i, alnum) ==
    IF i > Len(s) THEN alnum
    ELSE IF NameChar(s[i]) THEN NameMatch(s, i + 1, TRUE)
    ELSE IF ~alnum THEN FALSE
    ELSE IF s[i] \in {".", "/"} THEN NameMatch(s, i + 1, FALSE)
    ELSE IF s[i] = "_"
         THEN IF i < Len(s) /\ s[i + 1] = "_" THEN NameMatch(s, i + 2, FALSE)
              ELSE NameMatch(s, i + 1, FALSE)
    ELSE IF s[i] = "-"
         THEN IF i < Len(s) /\ s[i + 1] = "-" THEN NameMatch(s, i + 1, TRUE)
              ELSE NameMatch(s, i + 1, FALSE)
    ELSE FALSE

\* name.rs: Name::new
Name_new(name) == IF NameMatch(name, 1, FALSE) THEN Ok(name) ELSE Err("InvalidName")

\* reference.rs: REF_RE
REF_RE(s) ==
    /\ Len(s) \in 1..128
    /\ s[1] \in AlnumChars \cup {"_"}
    /\ \A i \in 2..Len(s) : s[i] \in AlnumChars \cup {".", "_", "-"}

\* oci_spec Digest::from_str, by the grammar digest.rs quotes:
\*   digest ::= algorithm ":" encoded
\*   algorithm ::= component (separator component)*, component ::= [a-z0-9]+,
\*   separator ::= [+._-], encoded ::= [a-zA-Z0-9=_-]+
\* (no registered algorithm, whose encoded part has a fixed length, can be
\* spelled with the characters of the model).
RECURSIVE AlgorithmMatch(_, _, _)
AlgorithmMatch(s, i, alnum) ==
    IF i > Len(s) THEN alnum
    ELSE IF NameChar(s[i]) THEN AlgorithmMatch(s, i + 1, TRUE)
    ELSE IF alnum /\ s[i] \in {"+", ".", "_", "-"} THEN AlgorithmMatch(s, i + 1, FALSE)
    ELSE FALSE

Digest_from_str(s) ==
    LET i == Find(s, <<":">>, 1)
    IN  IF i = 0 THEN Err("InvalidDigest")
        ELSE LET algorithm == SubSeq(s, 1, i - 1)
                 encoded   == Suffix(s, i + 1)
             IN  IF /\ AlgorithmMatch(algorithm, 1, FALSE)
                    /\ encoded # <<>>
                    /\ \A k \in 1..Len(encoded) :
                          encoded[k] \in AlnumChars \cup {"=", "_", "-"}
                 THEN Ok(s)
                 ELSE Err("InvalidDigest")

\* reference.rs: Reference::new
Reference_new(name) ==
    IF REF_RE(name) THEN Ok(name)
    ELSE IF Contains(name, <<":">>)
    THEN IF Digest_from_str(name).ok THEN Ok(name) ELSE Err("InvalidDigest")
    ELSE Err("InvalidReference")

\* reference.rs: Reference::encoded; format!("%{:02X}", c as u8)
PercentEncode(c) ==
    <<"%", HexDigits[(AsciiOf(c) \div 16) + 1], HexDigits[(AsciiOf(c) % 16) + 1]>>

RECURSIVE Reference_encoded(_)
Reference_encoded(r) ==
    IF r = <<>> THEN <<>>
    ELSE (IF Head(r) \in UpperChars \/ Head(r) = ":" THEN PercentEncode(Head(r))
          ELSE <<Head(r)>>) \o Reference_encoded(Tail(r))

\* urlencoding::decode: %XX with two hex digits is the byte XX, anything else
\* is kept as it is; the bytes must be UTF-8 (a byte above 0x7F never is, on
\* its own or before an ASCII character).
RECURSIVE DecodeBytes(_)
DecodeBytes(s) ==
    IF s = <<>> THEN <<>>
    ELSE IF Head(s) = "%" /\ Len(s) >= 3 /\ IsHex(s[2]) /\ IsHex(s[3])
    THEN <<16 * HexVal(s[2]) + HexVal(s[3])>> \o DecodeBytes(Suffix(s, 4))
    ELSE <<AsciiOf(Head(s))>> \o DecodeBytes(Tail(s))

urlencoding_decode(s) ==
    LET bytes == DecodeBytes(s)
    IN  IF \E i \in 1..Len(bytes) : bytes[i] > 127 THEN Err("FromUtf8Error")
        ELSE Ok([i \in 1..Len(bytes) |-> CharOf(bytes[i])])

\* image_name.rs: struct ImageName
ImageName(hostname, port, name, reference) ==
    [hostname |-> hostname, port |-> port, name |-> name, reference |-> reference]

\* C12 mutant: the port is left out of the text.
ImageName_to_string_NoPort(n) ==
    n.hostname \o <<"/">> \o n.name \o <<":">> \o n.reference

\* image_name.rs: impl fmt::Display for ImageName
ImageName_to_string(n) ==
    IF n.port.some
    THEN n.hostname \o <<":">> \o u16_to_string(n.port.val) \o <<"/">> \o n.name
            \o <<":">> \o n.reference
    ELSE n.hostname \o <<"/">> \o n.name \o <<":">> \o n.reference

\* str::split_once, with the pair to use when the separator is missing
split_once(s, c, default) ==
    LET i == Find(s, <<c>>, 1)
    IN  IF i = 0 THEN default ELSE <<SubSeq(s, 1, i - 1), Suffix(s, i + 1)>>

DockerHub == <<"h">>   \* stands for "registry-1.docker.io"
Latest    == <<"a">>   \* stands for "latest"

\* image_name.rs: impl FromStr for ImageName (ImageName::parse)
ImageName_parse(str) ==
    LET a        == split_once(str, "/", <<DockerHub, str>>)
        hp       == split_once(a[1], ":", <<a[1], <<>>>>)
        hasPort  == Contains(a[1], <<":">>)
        port     == IF hasPort THEN parse_u16(hp[2]) ELSE Ok(0)
        b        == split_once(a[2], ":", <<a[2], Latest>>)
        name     == Name_new(b[1])
        ref      == Reference_new(b[2])
    IN  IF ~port.ok THEN port
        ELSE IF ~name.ok THEN name
        ELSE IF ~ref.ok THEN ref
        ELSE Ok(ImageName(hp[1], IF hasPort THEN SomePort(port.val) ELSE NoPort,
                          name.val, ref.val))

\* image_name.rs: ImageName::as_escaped_path
as_escaped_path(n) ==
    IF n.port.some
    THEN n.hostname \o <<"%", "3", "A">> \o u16_to_string(n.port.val) \o <<"/">> \o n.name
            \o <<"%", "3", "A">> \o Reference_encoded(n.reference)
    ELSE n.hostname \o <<"/">> \o n.name \o <<"%", "3", "A">> \o Reference_encoded(n.reference)

\* image_name.rs: ImageName::from_escaped_path
from_escaped_path(path) ==
    LET image_name == urlencoding_decode(path)
    IN  IF ~image_name.ok THEN image_name ELSE ImageName_parse(image_name.val)

\* image_name.rs: ImageName::as_path
as_path(n) ==
    LET reference == Replace(n.reference, <<":">>, <<"_", "_">>)
    IN  IF n.port.some
        THEN n.hostname \o <<"_", "_">> \o u16_to_string(n.port.val) \o <<"/">> \o n.name
                \o <<"/", "_", "_">> \o reference
        ELSE n.hostname \o <<"/">> \o n.name \o <<"/", "_", "_">> \o reference

\* Path::components of a relative path: the parts between separators,
\* without the empty ones.
components(path) == SelectSeq(Split(path, <<"/">>), LAMBDA c : c # <<>>)

\* image_name.rs: ImageName::from_path
from_path(path) ==
    LET cs == components(path)
        n  == Len(cs)
    IN  IF n < 3 THEN Err("InvalidPath")
        ELSE LET iter     == Split(cs[1], <<"_", "_">>)
                 hostname == iter[1]
                 port     == IF Len(iter) >= 2 THEN parse_u16(iter[2]) ELSE Ok(0)
                 name     == Name_new(Join(SubSeq(cs, 2, n - 1), <<"/">>))
                 last     == cs[n]
             IN  IF ~port.ok THEN port
                 ELSE IF ~name.ok THEN name
                 ELSE IF ~StartsWithAt(last, <<"_", "_">>, 1) THEN Err("MissingTag")
                 ELSE LET reference == Reference_new(
                                          Replace(Suffix(last, 3), <<"_", "_">>, <<":">>))
                      IN  IF ~reference.ok THEN reference
                          ELSE Ok(ImageName(hostname,
                                            IF Len(iter) >= 2 THEN SomePort(port.val)
                                            ELSE NoPort,
                                            name.val, reference.val))

(***************************************************************************)
(* index.json: [manifests |-> sequence of [digest, size, name]], name the  *)
(* text of the org.opencontainers.image.ref.name annotation (empty when    *)
(* there is none).  An Option<ImageName> is <<>> or <<n>>.                 *)
(***************************************************************************)
NoName == <<>>
Some(n) == <<n>>
ManifestDescriptor(digest, size, name) == [digest |-> digest, size |-> size, name |-> name]

\* layout.rs: get_name_from_index
get_name_from_index(index) ==
    IF Len(index.manifests) # 1 THEN Err("MultipleManifests")
    ELSE LET manifest == index.manifests[1]
         IN  IF manifest.name = NoName THEN Err("MissingManifestName")
             ELSE ImageName_parse(manifest.name)

(***************************************************************************)
(* The file system: fs[p] is absent, an oci-dir (a directory: files maps   *)
(* each path in it to its content) or a regular file holding a tar archive *)
(* (entries, in the order written).                                        *)
(***************************************************************************)
NoFiles == [p \in {} |-> <<>>]
Absent        == [kind |-> "absent", files |-> NoFiles, entries |-> <<>>]
DirOf(files)  == [kind |-> "dir",    files |-> files,   entries |-> <<>>]
TarOf(es)     == [kind |-> "file",   files |-> NoFiles, entries |-> es]
Entry(path, data) == [path |-> path, data |-> data]

LayoutVersion == "1.0.0"
NoImage   == [kind |-> "none", path |-> ""]
Image(kind, path) == [kind |-> kind, path |-> path]

\* oci_dir.rs: OciDir::new
OciDir_new(f, root) ==
    IF f[root].kind # "dir" THEN Err("NotADirectory")
    ELSE IF OciLayoutPath \notin DOMAIN f[root].files THEN Err("NotOciDir")
    ELSE IF f[root].files[OciLayoutPath] # LayoutVersion THEN Err("IncompatibleVersion")
    ELSE Ok(Image("oci-dir", root))

\* oci_dir.rs: OciDir::get_index
OciDir_get_index(f, root) ==
    IF f[root].kind = "dir" /\ IndexPath \in DOMAIN f[root].files
    THEN Ok(f[root].files[IndexPath])
    ELSE Err("UnknownIo")

\* oci_dir.rs: OciDir::get_blob
OciDir_get_blob(f, root, digest) ==
    IF f[root].kind = "dir" /\ Digest_as_path(digest) \in DOMAIN f[root].files
    THEN Ok(f[root].files[Digest_as_path(digest)])
    ELSE Err("UnknownIo")

\* oci_dir.rs: OciDir::get_name
OciDir_get_name(f, root) ==
    LET index == OciDir_get_index(f, root)
    IN  IF ~index.ok THEN index ELSE get_name_from_index(index.val)

\* oci_dir.rs: OciDir::get_manifest
OciDir_get_manifest(f, root) ==
    LET index == OciDir_get_index(f, root)
    IN  IF ~index.ok THEN index
        ELSE IF index.val.manifests = <<>> THEN Err("NoManifest")
        ELSE LET desc == index.val.manifests[1]
                 blob == OciDir_get_blob(f, root, desc.digest)
             IN  IF ~blob.ok THEN blob ELSE from_slice(blob.val)

\* oci_archive.rs: OciArchive::new
OciArchive_new(f, path) ==
    IF f[path].kind # "file" THEN Err("NotAFile") ELSE Ok(Image("oci-archive", path))

\* oci_archive.rs: OciArchive::get_entries (rewind, then a fresh iterator)
get_entries(f, path) == IF f[path].kind = "file" THEN f[path].entries ELSE <<>>

\* The first entry of es, from position i on, whose path is p (0: none).
RECURSIVE FirstEntry(_, _, _)
FirstEntry(es, p, i) ==
    IF i > Len(es) THEN 0
    ELSE IF es[i].path = p THEN i
    ELSE FirstEntry(es, p, i + 1)

\* oci_archive.rs: OciArchive::get_index
OciArchive_get_index(f, path) ==
    LET es == get_entries(f, path)
        i  == FirstEntry(es, IndexPath, 1)
    IN  IF i = 0 THEN Err("MissingIndex") ELSE Ok(es[i].data)

\* oci_archive.rs: OciArchive::get_blob
OciArchive_get_blob(f, path, digest) ==
    LET es == get_entries(f, path)
        i  == FirstEntry(es, Digest_as_path(digest), 1)
    IN  IF i = 0 THEN Err("MissingBlob") ELSE Ok(es[i].data)

\* oci_archive.rs: OciArchive::get_name
OciArchive_get_name(f, path) ==
    LET index == OciArchive_get_index(f, path)
    IN  IF ~index.ok THEN index ELSE get_name_from_index(index.val)

\* oci_archive.rs: OciArchive::get_manifest
OciArchive_get_manifest(f, path) ==
    LET index == OciArchive_get_index(f, path)
    IN  IF ~index.ok THEN index
        ELSE IF index.val.manifests = <<>> THEN Err("NoManifest")
        ELSE LET desc == index.val.manifests[1]
                 blob == OciArchive_get_blob(f, path, desc.digest)
             IN  IF ~blob.ok THEN blob ELSE from_slice(blob.val)

\* layout.rs: trait Image, dispatched on the backend
get_name(f, image) ==
    IF image.kind = "oci-dir" THEN OciDir_get_name(f, image.path)
    ELSE OciArchive_get_name(f, image.path)

get_manifest(f, image) ==
    IF image.kind = "oci-dir" THEN OciDir_get_manifest(f, image.path)
    ELSE OciArchive_get_manifest(f, image.path)

get_blob(f, image, digest) ==
    IF image.kind = "oci-dir" THEN OciDir_get_blob(f, image.path, digest)
    ELSE OciArchive_get_blob(f, image.path, digest)

(***************************************************************************)
(* Builders (oci_dir.rs, oci_archive.rs).  A builder value is              *)
(* [kind, image_name, path, is_finished]; image_name is NoName for         *)
(* OciDirBuilder::new_unnamed.                                             *)
(***************************************************************************)
NoBuilder == [kind |-> "none", image_name |-> NoName, path |-> "", is_finished |-> FALSE]

Locs      == {"src", "dst"}
RawBlobs  == {<<>>, <<0>>, <<1>>}
Names     == { ImageName(<<"h">>, SomePort(80), <<"a">>, <<"a">>) }

\* oci_dir.rs: OciDirBuilder::add_blob, the write having succeeded
OciDirBuilder_add_blob(f, b, data) ==
    LET digest == from_buf_sha256(data)
        out    == Digest_as_path(digest)
    IN  [fs  |-> [f EXCEPT ![b.path] = DirOf((out :> data) @@ f[b.path].files)],
         ret |-> Ok([digest |-> digest, size |-> Len(data)])]

\* oci_archive.rs: OciArchiveBuilder::add_blob, the append having succeeded
OciArchiveBuilder_add_blob(f, b, blob) ==
    LET digest == from_buf_sha256(blob)
    IN  [fs  |-> [f EXCEPT ![b.path] =
                     TarOf(Append(f[b.path].entries, Entry(Digest_as_path(digest), blob)))],
         ret |-> Ok([digest |-> digest, size |-> Len(blob)])]

\* layout.rs: ImageBuilder::add_blob, dispatched on the backend
add_blob(f, b, data) ==
    IF b.kind = "oci-dir" THEN OciDirBuilder_add_blob(f, b, data)
    ELSE OciArchiveBuilder_add_blob(f, b, data)

\* build: "if let Some(name) = &self.image_name": the annotation is
\* name.to_string(), and there is none for an unnamed builder.
RefName(image_name) ==
    IF image_name = NoName THEN NoName ELSE ImageName_to_string(image_name[1])

\* C2 mutant: the index written by build names the config blob, not the
\* manifest blob.
BuildIndex_OfConfig(b, manifest) ==
    [manifests |-> <<ManifestDescriptor(manifest.config.digest, manifest.config.size,
                                        RefName(b.image_name))>>]

\* The manifest descriptor and index that build writes.
BuildIndex(b, manifest) ==
    LET manifest_json == to_string(manifest)
        digest        == from_buf_sha256(manifest_json)
    IN  [manifests |-> <<ManifestDescriptor(digest, Len(manifest_json),
                                            RefName(b.image_name))>>]

\* oci_dir.rs: impl Drop for OciDirBuilder.  rmOk: remove_dir_all succeeded.
\* tar::Builder's drop leaves the entries written so far in the file.
DropBuilder(f, b, rmOk) ==
    IF b.kind = "oci-dir" /\ ~b.is_finished /\ rmOk
    THEN [f EXCEPT ![b.path] = Absent]
    ELSE f

\* C4 mutant: build does not mark the builder finished.
SetFinished_Not(b) == b

\* oci_dir.rs: build's "self.is_finished = true"
SetFinished(b) == [b EXCEPT !.is_finished = TRUE]

(***************************************************************************)
(* History of the calls made on the live (or last) builder.                *)
(***************************************************************************)
\* built: the image name of the builder and the manifest given to build, once
\* build has returned an image.
NoHist == [created |-> FALSE, kind |-> "none", root |-> "", from |-> NoImage,
           added |-> {}, nAdds |-> 0, log |-> <<>>,
           dropped |-> FALSE, buildOk |-> FALSE, rmFailed |-> FALSE,
           built |-> <<>>]

NewHist(kind, root) == [NoHist EXCEPT !.created = TRUE, !.kind = kind, !.root = root]

Added(data, r) == [data |-> data, digest |-> r.val.digest, size |-> r.val.size]

\* A call copy / the client made on the builder: add_blob for the descriptor
\* want (of the source manifest), which returned got; or build.
Event(call, what, idx, want, got) ==
    [call |-> call, what |-> what, idx |-> idx, want |-> want, got |-> got]
BuildEvent == Event("build", "", 0, DescOf(<<>>), DescOf(<<>>))

\* The history after the builder was dropped.
Dropped(h, b, rmOk) ==
    [h EXCEPT !.dropped = TRUE,
              !.rmFailed = (b.kind = "oci-dir" /\ ~b.is_finished /\ ~rmOk)]

EmptyManifest == [config |-> DescOf(<<>>), layers |-> <<>>]
NoCp == [inCopy |-> FALSE, from |-> NoImage, name |-> NoName,
         manifest |-> EmptyManifest, i |-> 0]

Ret(op, r) == [op |-> op, ok |-> r.ok, val |-> r.val]
NoRet == [op |-> "none", ok |-> TRUE, val |-> ""]

(***************************************************************************)
(* Calls of the client program, made while no call is running.             *)
(***************************************************************************)
\* C28 mutant: new without "if oci_dir_root.exists() { bail!(..) }";
\* create_dir_all succeeds on a directory that is there already.
OciDirBuilder_new_NoCheck(oci_dir_root, image_name) ==
    /\ LayoutOnly
    /\ pc = "idle" /\ builder.kind = "none"
    /\ \/ /\ ret' = Ret("new", Err("UnknownIo"))
          /\ UNCHANGED <<fs, builder, hist>>
       \/ /\ fs[oci_dir_root].kind # "file" /\ ~hist.created
          /\ fs' = [fs EXCEPT ![oci_dir_root] =
                       IF @.kind = "absent" THEN DirOf(NoFiles) ELSE @]
          /\ builder' = [kind |-> "oci-dir", image_name |-> image_name,
                         path |-> oci_dir_root, is_finished |-> FALSE]
          /\ hist' = NewHist("oci-dir", oci_dir_root)
          /\ ret' = Ret("new", Ok(""))
    /\ UNCHANGED <<img, pc, cp>>

\* oci_dir.rs: OciDirBuilder::new (name given) and new_unnamed (NoName).
\* A run creates one builder; create_dir_all may fail.
OciDirBuilder_new(oci_dir_root, image_name) ==
    /\ LayoutOnly
    /\ pc = "idle" /\ builder.kind = "none"
    /\ \/ /\ fs[oci_dir_root].kind # "absent"
          /\ ret' = Ret("new", Err("ImageAlreadyExists"))
          /\ UNCHANGED <<fs, builder, hist>>
       \/ /\ fs[oci_dir_root].kind = "absent"
          /\ ret' = Ret("new", Err("UnknownIo"))
          /\ UNCHANGED <<fs, builder, hist>>
       \/ /\ fs[oci_dir_root].kind = "absent" /\ ~hist.created
          /\ fs' = [fs EXCEPT ![oci_dir_root] = DirOf(NoFiles)]
          /\ builder' = [kind |-> "oci-dir", image_name |-> image_name,
                         path |-> oci_dir_root, is_finished |-> FALSE]
          /\ hist' = NewHist("oci-dir", oci_dir_root)
          /\ ret' = Ret("new", Ok(""))
    /\ UNCHANGED <<img, pc, cp>>

\* oci_archive.rs: OciArchiveBuilder::new; File::create may fail.
OciArchiveBuilder_new(path, image_name) ==
    /\ LayoutOnly
    /\ pc = "idle" /\ builder.kind = "none"
    /\ \/ /\ fs[path].kind # "absent"
          /\ ret' = Ret("new", Err("ImageAlreadyExists"))
          /\ UNCHANGED <<fs, builder, hist>>
       \/ /\ fs[path].kind = "absent"
          /\ ret' = Ret("new", Err("UnknownIo"))
          /\ UNCHANGED <<fs, builder, hist>>
       \/ /\ fs[path].kind = "absent" /\ ~hist.created
          /\ fs' = [fs EXCEPT ![path] = TarOf(<<>>)]
          /\ builder' = [kind |-> "oci-archive", image_name |-> image_name,
                         path |-> path, is_finished |-> FALSE]
          /\ hist' = NewHist("oci-archive", path)
          /\ ret' = Ret("new", Ok(""))
    /\ UNCHANGED <<img, pc, cp>>

\* A direct call of ImageBuilder::add_blob by the client.
AddBlob(data) ==
    /\ LayoutOnly
    /\ pc = "idle" /\ builder.kind # "none"
    /\ fs["src"].kind = "absent"
    /\ hist.nAdds < MaxAdds
    /\ \E ioOk \in BOOLEAN :
         IF ioOk
         THEN LET r == add_blob(fs, builder, data)
              IN  /\ fs' = r.fs
                  /\ ret' = Ret("add_blob", r.ret)
                  /\ hist' = [hist EXCEPT !.added = @ \cup {Added(data, r.ret)},
                                          !.nAdds = @ + 1]
         ELSE /\ ret' = Ret("add_blob", Err("UnknownIo"))
              /\ hist' = [hist EXCEPT !.nAdds = @ + 1]
              /\ UNCHANGED fs
    /\ UNCHANGED <<builder, img, pc, cp>>

\* The client lets the builder go out of scope without calling build.
Drop ==
    /\ LayoutOnly
    /\ pc = "idle" /\ builder.kind # "none"
    /\ \E rmOk \in BOOLEAN :
         /\ fs' = DropBuilder(fs, builder, rmOk)
         /\ hist' = Dropped(hist, builder, rmOk)
    /\ builder' = NoBuilder
    /\ ret' = Ret("drop", Ok(""))
    /\ UNCHANGED <<img, pc, cp>>

\* layout.rs: read, on a local path
Open(path) ==
    /\ LayoutOnly
    /\ pc = "idle"
    /\ fs[path].kind # "absent"
    /\ LET r == IF fs[path].kind = "file" THEN OciArchive_new(fs, path)
                ELSE OciDir_new(fs, path)
       IN  /\ ret' = Ret("open", r)
           /\ img' = IF r.ok THEN r.val ELSE img
    /\ UNCHANGED <<fs, builder, pc, cp, hist>>

\* Image::get_name, get_manifest and get_blob on the handle held.
GetName ==
    /\ LayoutOnly
    /\ pc = "idle" /\ img.kind # "none"
    /\ ret' = Ret("get_name", get_name(fs, img))
    /\ UNCHANGED <<fs, builder, img, pc, cp, hist>>

GetManifest ==
    /\ LayoutOnly
    /\ pc = "idle" /\ img.kind # "none"
    /\ ret' = Ret("get_manifest", get_manifest(fs, img))
    /\ UNCHANGED <<fs, builder, img, pc, cp, hist>>

GetBlob(digest) ==
    /\ LayoutOnly
    /\ pc = "idle" /\ img.kind # "none"
    /\ ret' = Ret("get_blob", get_blob(fs, img, digest))
    /\ UNCHANGED <<fs, builder, img, pc, cp, hist>>

(***************************************************************************)
(* build and copy, step by step.  Each step is one fallible operation of   *)
(* the code; a failure returns at once ("?"), which drops the builder.     *)
(***************************************************************************)
\* The running build / copy returns r: the builder b, owned by the call, is
\* dropped on the way out, with the file system f as the call left it.
Built(b, manifest) == [image_name |-> b.image_name, manifest |-> manifest]

Return(f, b, h, r) ==
    /\ \E rmOk \in BOOLEAN :
         /\ fs' = DropBuilder(f, b, rmOk)
         /\ hist' = Dropped([h EXCEPT !.buildOk = r.ok,
                                      !.built = IF r.ok THEN <<Built(b, cp.manifest)>>
                                                ELSE <<>>],
                             b, rmOk)
    /\ builder' = NoBuilder
    /\ ret' = Ret(IF cp.inCopy THEN "copy" ELSE "build", r)
    /\ img' = IF r.ok THEN r.val ELSE img
    /\ pc' = "idle"
    /\ cp' = NoCp

Manifests(D) == { [config |-> c, layers |-> ls] : c \in D, ls \in SeqsUpTo(D, MaxLayers) }
BuildManifests == Manifests({ DescOf(b) : b \in RawBlobs })

\* The client calls ImageBuilder::build(manifest) itself.
Build(manifest) ==
    /\ LayoutOnly
    /\ pc = "idle" /\ builder.kind # "none"
    /\ fs["src"].kind = "absent"
    /\ pc' = "build_blob"
    /\ cp' = [NoCp EXCEPT !.manifest = manifest]
    /\ hist' = [hist EXCEPT !.log = Append(@, BuildEvent)]
    /\ ret' = NoRet
    /\ UNCHANGED <<fs, builder, img>>

\* C29 mutant: build goes on to the index without writing the manifest blob.
BuildBlob_Skip ==
    /\ LayoutOnly
    /\ pc = "build_blob"
    /\ pc' = IF builder.kind = "oci-dir" THEN "build_layout" ELSE "build_index"
    /\ UNCHANGED <<fs, builder, img, ret, cp, hist>>

\* build: let (digest, size) = self.add_blob(manifest_json.as_bytes())?
BuildBlob ==
    /\ LayoutOnly
    /\ pc = "build_blob"
    /\ \E ioOk \in BOOLEAN :
         IF ioOk
         THEN /\ fs' = add_blob(fs, builder, to_string(cp.manifest)).fs
              /\ pc' = IF builder.kind = "oci-dir" THEN "build_layout" ELSE "build_index"
              /\ UNCHANGED <<builder, img, ret, cp, hist>>
         ELSE Return(fs, builder, hist, Err("UnknownIo"))

\* oci_dir.rs build: fs::write(oci-layout)?
BuildLayout ==
    /\ LayoutOnly
    /\ pc = "build_layout"
    /\ \E ioOk \in BOOLEAN :
         IF ioOk
         THEN /\ fs' = [fs EXCEPT ![builder.path] =
                           DirOf((OciLayoutPath :> LayoutVersion) @@ fs[builder.path].files)]
              /\ pc' = "build_index"
              /\ UNCHANGED <<builder, img, ret, cp, hist>>
         ELSE Return(fs, builder, hist, Err("UnknownIo"))

\* build: fs::write(index.json)? / self.ar.append_data(.., "index.json", ..)?
BuildIndexJson ==
    /\ LayoutOnly
    /\ pc = "build_index"
    /\ \E ioOk \in BOOLEAN :
         IF ioOk
         THEN /\ fs' = [fs EXCEPT ![builder.path] =
                           IF builder.kind = "oci-dir"
                           THEN DirOf((IndexPath :> BuildIndex(builder, cp.manifest))
                                          @@ fs[builder.path].files)
                           ELSE TarOf(Append(fs[builder.path].entries,
                                             Entry(IndexPath, BuildIndex(builder, cp.manifest))))]
              /\ pc' = "build_finish"
              /\ UNCHANGED <<builder, img, ret, cp, hist>>
         ELSE Return(fs, builder, hist, Err("UnknownIo"))

\* oci_dir.rs build: self.is_finished = true; Ok(OciDir { .. })
\* oci_archive.rs build: self.ar.finish()?; OciArchive::new(&self.path)
BuildFinish ==
    /\ LayoutOnly
    /\ pc = "build_finish"
    /\ IF builder.kind = "oci-dir"
       THEN Return(fs, SetFinished(builder), hist, Ok(Image("oci-dir", builder.path)))
       ELSE \E ioOk \in BOOLEAN :
              IF ioOk THEN Return(fs, builder, hist, OciArchive_new(fs, builder.path))
              ELSE Return(fs, builder, hist, Err("UnknownIo"))

\* layout.rs: copy(from, to), from the handle held into the live builder
Copy ==
    /\ LayoutOnly
    /\ pc = "idle" /\ builder.kind # "none" /\ img.kind # "none"
    /\ hist.nAdds = 0 /\ hist.log = <<>>
    /\ pc' = "copy_name"
    /\ cp' = [NoCp EXCEPT !.inCopy = TRUE, !.from = img]
    /\ hist' = [hist EXCEPT !.from = img]
    /\ ret' = NoRet
    /\ UNCHANGED <<fs, builder, img>>

\* copy: let name = from.get_name()?
CopyName ==
    /\ LayoutOnly
    /\ pc = "copy_name"
    /\ LET r == get_name(fs, cp.from)
       IN  IF r.ok
           THEN /\ cp' = [cp EXCEPT !.name = r.val]
                /\ pc' = "copy_manifest"
                /\ UNCHANGED <<fs, builder, img, ret, hist>>
           ELSE Return(fs, builder, hist, r)

\* copy: let manifest = from.get_manifest()?
CopyManifest ==
    /\ LayoutOnly
    /\ pc = "copy_manifest"
    /\ LET r == get_manifest(fs, cp.from)
       IN  IF r.ok
           THEN /\ cp' = [cp EXCEPT !.manifest = r.val, !.i = 1]
                /\ pc' = IF r.val.layers = <<>> THEN "copy_config" ELSE "copy_layer"
                /\ UNCHANGED <<fs, builder, img, ret, hist>>
           ELSE Return(fs, builder, hist, r)

\* C3 mutant: copy does not compare the sizes.
SizeMismatch_Never(desc, got) == FALSE

\* copy: "if digest != &digest_new" and "if size != layer.size()"
DigestMismatch(desc, got) == desc.digest # got.digest
SizeMismatch(desc, got)   == got.size # desc.size

\* copy: get_blob, add_blob and the two comparisons, for the descriptor desc.
\* next: where copy goes on when they pass.
CopyBlob(desc, what, next) ==
    LET blob == get_blob(fs, cp.from, desc.digest)
    IN  IF ~blob.ok THEN Return(fs, builder, hist, blob)
        ELSE \E ioOk \in BOOLEAN :
               IF ~ioOk THEN Return(fs, builder, hist, Err("UnknownIo"))
               ELSE LET r   == add_blob(fs, builder, blob.val)
                        got == Desc(r.ret.val.digest, r.ret.val.size)
                        h   == [hist EXCEPT
                                  !.added = @ \cup {Added(blob.val, r.ret)},
                                  !.log = Append(@, Event("add_blob", what, cp.i, desc, got))]
                    IN  IF DigestMismatch(desc, got)
                        THEN Return(r.fs, builder, h, Err("DigestMismatch"))
                        ELSE IF SizeMismatch(desc, got)
                        THEN Return(r.fs, builder, h, Err("SizeMismatch"))
                        ELSE /\ fs' = r.fs
                             /\ hist' = IF next = "build_blob"
                                        THEN [h EXCEPT !.log = Append(@, BuildEvent)]
                                        ELSE h
                             /\ pc' = next
                             /\ cp' = [cp EXCEPT !.i = @ + 1]
                             /\ UNCHANGED <<builder, img, ret>>

\* copy: one turn of "for layer in manifest.layers()"
CopyLayer ==
    /\ LayoutOnly
    /\ pc = "copy_layer"
    /\ CopyBlob(cp.manifest.layers[cp.i], "layer",
                IF cp.i = Len(cp.manifest.layers) THEN "copy_config" ELSE "copy_layer")

\* copy: the config blob, then to.build(manifest)
CopyConfig ==
    /\ LayoutOnly
    /\ pc = "copy_config"
    /\ CopyBlob(cp.manifest.config, "config", "build_blob")

(***************************************************************************)
(* The layouts a copy may read from: written by any tool, they need not be *)
(* well formed.  store: "ok", "missing" (no file for the blob <<0>>),      *)
(* "corrupt" (the file named by the digest of <<0>> holds <<1>>),          *)
(* "no_manifest" (no manifest blob).  index: "one", "unnamed", "two",      *)
(* "none" (the number of manifests index.json lists).                      *)
(***************************************************************************)
SrcBlobs == {<<0>>, <<1>>}
BadSize  == Desc(from_buf_sha256(<<0>>), 2)
\* A blob stored under another algorithm, which no manifest names.
OtherAlg == Desc([algorithm |-> "sha512", encoded |-> Sha256Hex(<<0>>)], 1)
SrcDescs == { DescOf(b) : b \in SrcBlobs } \cup {BadSize}
SrcManifests == Manifests(SrcDescs)
StoreKinds == {"ok", "missing", "corrupt", "no_manifest"}
IndexKinds == {"one", "unnamed", "two", "none"}

MDesc(m, name) ==
    ManifestDescriptor(from_buf_sha256(to_string(m)), Len(to_string(m)), name)

SrcIndex(m, index) ==
    [manifests |->
        CASE index = "one"     -> <<MDesc(m, <<"h", "/", "a", ":", "a">>)>>
          [] index = "unnamed" -> <<MDesc(m, NoName)>>
          [] index = "two"     -> <<MDesc(m, <<"h", "/", "a", ":", "a">>),
                                    MDesc(EmptyManifest, <<"h", "/", "a", ":", "A">>)>>
          [] OTHER             -> <<>>]

SrcEntries(m, store, index) ==
    <<Entry(OciLayoutPath, LayoutVersion), Entry(IndexPath, SrcIndex(m, index))>>
    \o (IF store = "missing" THEN <<>>
        ELSE <<Entry(Digest_as_path(from_buf_sha256(<<0>>)),
                     IF store = "corrupt" THEN <<1>> ELSE <<0>>)>>)
    \o <<Entry(Digest_as_path(from_buf_sha256(<<1>>)), <<1>>),
         Entry(Digest_as_path(OtherAlg.digest), <<0>>)>>
    \o (IF store = "no_manifest" THEN <<>>
        ELSE <<Entry(Digest_as_path(from_buf_sha256(to_string(m))), to_string(m))>>)

\* The directory holding the entries es (paths are distinct).
FilesOf(es) ==
    [p \in { es[i].path : i \in 1..Len(es) } |->
        es[CHOOSE i \in 1..Len(es) : es[i].path = p].data]

\* Every manifest over every store whose index names one manifest; one manifest
\* for the layouts whose index or manifest blob stops a reader at once.
SrcShapes ==
    { <<m, s, "one">> : m \in SrcManifests, s \in StoreKinds \ {"no_manifest"} }
    \cup { <<EmptyManifest, "no_manifest", "one">> }
    \cup { <<[config |-> DescOf(<<1>>), layers |-> <<DescOf(<<0>>)>>], "ok", x>> :
             x \in IndexKinds }

SrcLayouts ==
    { DirOf(FilesOf(SrcEntries(t[1], t[2], t[3]))) : t \in SrcShapes }
    \cup { TarOf(SrcEntries(t[1], t[2], t[3])) : t \in SrcShapes }

Digests == { d.digest : d \in SrcDescs } \cup { from_buf_sha256(b) : b \in RawBlobs }

(***************************************************************************)
(* Spec: the client builds an image itself (no source layout) or copies    *)
(* one from the layout at "src".                                           *)
(***************************************************************************)
NameIdle   == nm = <<>>
ClientIdle == cl = <<>> /\ reg = <<>>

Init ==
    /\ fs \in { [src |-> s, dst |-> Absent] : s \in {Absent} \cup SrcLayouts }
    /\ builder = NoBuilder
    /\ img = NoImage
    /\ pc = "idle"
    /\ ret = NoRet
    /\ cp = NoCp
    /\ hist = NoHist
    /\ NameIdle /\ ClientIdle

Next ==
    \/ \E p \in Locs, n \in Names : OciDirBuilder_new(p, Some(n))
    \/ \E p \in Locs : OciDirBuilder_new(p, NoName)
    \/ \E p \in Locs, n \in Names : OciArchiveBuilder_new(p, Some(n))
    \/ \E b \in RawBlobs : AddBlob(b)
    \/ Drop
    \/ \E p \in Locs : Open(p)
    \/ GetName
    \/ GetManifest
    \/ \E d \in Digests : GetBlob(d)
    \/ \E m \in BuildManifests : Build(m)
    \/ BuildBlob
    \/ BuildLayout
    \/ BuildIndexJson
    \/ BuildFinish
    \/ Copy
    \/ CopyName
    \/ CopyManifest
    \/ CopyLayer
    \/ CopyConfig

Spec == Init /\ [][Next]_vars

(***************************************************************************)
(* Properties of the image layouts (specification Spec).                   *)
(***************************************************************************)
\* The image the builder of this run builds.
BuiltImage == Image(hist.kind, hist.root)

\* C1: digest fidelity.  After a successful build, every add_blob(b) -> (d, s)
\* made on the builder (the same bytes may have been added more than once)
\* has s = len(b) and d = the SHA-256 digest of b, and get_blob(d) on the
\* built image returns b.
C1_DigestFidelity ==
    hist.buildOk =>
        \A a \in hist.added :
            /\ a.size = Len(a.data)
            /\ a.digest = [algorithm |-> "sha256", encoded |-> Sha256Hex(a.data)]
            /\ get_blob(fs, BuiltImage, a.digest).ok
            /\ get_blob(fs, BuiltImage, a.digest).val = a.data

\* C1 witness: an archive was built after the same bytes were added twice
\* (two entries of the tar file share the blob's path) next to other bytes.
C1_Witness ==
    /\ hist.buildOk /\ hist.kind = "oci-archive"
    /\ Cardinality(hist.added) = 1
    /\ \E a \in hist.added :
         \E i, j \in 1..Len(fs[hist.root].entries) :
            /\ i < j
            /\ fs[hist.root].entries[i].path = Digest_as_path(a.digest)
            /\ fs[hist.root].entries[j].path = Digest_as_path(a.digest)

\* C2: copy preserves descriptors.  When copy returned successfully, the
\* manifest of the image it returned has the config descriptor and the layer
\* descriptors of the source's manifest, in the same order, and get_blob
\* returns the same bytes on both for each of them.
C2_CopyPreserves ==
    (ret.op = "copy" /\ ret.ok) =>
        LET s == get_manifest(fs, hist.from)
            t == get_manifest(fs, ret.val)
        IN  /\ s.ok /\ t.ok
            /\ t.val.config = s.val.config
            /\ t.val.layers = s.val.layers
            /\ \A d \in {s.val.config} \cup { s.val.layers[i] : i \in 1..Len(s.val.layers) } :
                  /\ get_blob(fs, hist.from, d.digest).ok
                  /\ get_blob(fs, ret.val, d.digest).ok
                  /\ get_blob(fs, ret.val, d.digest).val
                        = get_blob(fs, hist.from, d.digest).val

\* C2 witness: a copy of a manifest with two different layers returned an
\* image of the other layout kind.
C2_Witness ==
    /\ ret.op = "copy" /\ ret.ok
    /\ ret.val.kind # hist.from.kind
    /\ LET s == get_manifest(fs, hist.from)
       IN  /\ s.ok /\ Len(s.val.layers) = 2
           /\ s.val.layers[1] # s.val.layers[2]

\* An add_blob of copy whose result differs from the source descriptor.
Mismatched(e) ==
    /\ e.call = "add_blob"
    /\ (e.want.digest # e.got.digest \/ e.want.size # e.got.size)

\* C3: copy treats integrity violations as fatal.  An add_blob whose (digest,
\* size) differs from the source descriptor is the last call copy makes on
\* the builder: copy returns an error and build is not called.  build is
\* called at most once, exactly once when copy succeeds, and only after
\* add_blob matched for every layer in manifest order and then for the config.
C3_CopyIntegrityFatal ==
    hist.from # NoImage =>
        LET log    == hist.log
            builds == { i \in 1..Len(log) : log[i].call = "build" }
            m      == get_manifest(fs, hist.from)
        IN  /\ Cardinality(builds) <= 1
            /\ hist.buildOk => builds # {}
            /\ \A i \in 1..Len(log) :
                  Mismatched(log[i]) =>
                     /\ i = Len(log) /\ builds = {}
                     /\ pc = "idle" /\ hist.dropped /\ ~hist.buildOk
            /\ \A k \in builds :
                  /\ m.ok /\ k = Len(m.val.layers) + 2
                  /\ \A i \in 1..(k - 1) :
                        /\ log[i].call = "add_blob" /\ ~Mismatched(log[i])
                        /\ log[i].want = IF i = k - 1 THEN m.val.config
                                         ELSE m.val.layers[i]
                        /\ log[i].what = IF i = k - 1 THEN "config" ELSE "layer"

\* C3 witness: copy stopped at its second layer, whose size is not the one
\* the source descriptor records, after the first layer matched.
C3_Witness ==
    /\ hist.from # NoImage /\ pc = "idle" /\ ~hist.buildOk
    /\ Len(hist.log) = 2
    /\ ~Mismatched(hist.log[1])
    /\ Mismatched(hist.log[2])
    /\ hist.log[2].want.digest = hist.log[2].got.digest

C5_AtMostOneManifest ==
    LET index == IF img.kind = "oci-dir" THEN OciDir_get_index(fs, img.path)
                 ELSE OciArchive_get_index(fs, img.path)
    IN  (/\ ret.op \in {"get_name", "get_manifest"}
         /\ index.ok /\ Len(index.val.manifests) > 1)
        => ~ret.ok

\* The index.json of the layout at path p, read as its reader reads it.
IndexOf(f, image) ==
    IF image.kind = "oci-dir" THEN OciDir_get_index(f, image.path)
    ELSE OciArchive_get_index(f, image.path)

\* C12: build round-trip of name and manifest.  For an OciDirBuilder or
\* OciArchiveBuilder created with image name n, when build(m) has returned an
\* image (called directly or by copy), the layout's index.json lists exactly
\* one manifest descriptor, get_name() on the returned image is n, and
\* get_manifest() is m.
C12_BuildRoundTrip ==
    (/\ ret.op \in {"build", "copy"} /\ ret.ok
     /\ hist.built # <<>> /\ hist.built[1].image_name # NoName)
    => /\ IndexOf(fs, ret.val).ok
       /\ Len(IndexOf(fs, ret.val).val.manifests) = 1
       /\ get_name(fs, ret.val) = Ok(hist.built[1].image_name[1])
       /\ get_manifest(fs, ret.val) = Ok(hist.built[1].manifest)

\* C12 witness: an OciArchiveBuilder named with a port, after two add_blob
\* calls, built a manifest with two layers.
C12_Witness ==
    /\ ret.op = "build" /\ ret.ok /\ ret.val.kind = "oci-archive"
    /\ hist.built # <<>> /\ hist.built[1].image_name # NoName
    /\ hist.built[1].image_name[1].port.some
    /\ hist.nAdds = 2 /\ Len(hist.built[1].manifest.layers) = 2

(***************************************************************************)
(* SpecName: an ImageName, as a client can construct it (the fields are    *)
(* public; Name and Reference only through their checked constructors),    *)
(* is taken through the path encodings and back.                           *)
(***************************************************************************)
NameOnly == UNCHANGED <<fs, builder, img, pc, ret, cp, hist, cl, reg>>

HostChars == {"h", "%", "4"}
RefChars  == {"a", "A", "_", ":"}

NonEmpty(S, n) == SeqsUpTo(S, n) \ {<<>>}

Hostnames  == NonEmpty(HostChars, MaxHostLen)
Ports      == {NoPort, SomePort(80)}
NameStrs   == { s \in {<<"a">>, <<"a", "_", "_", "a">>, <<"a", "/", "a">>, <<"_", "a">>} :
                  Name_new(s).ok }
References == { s \in NonEmpty(RefChars, MaxRefLen) : Reference_new(s).ok }

ImageNames ==
    { ImageName(h, p, n, r) : h \in Hostnames, p \in Ports, n \in NameStrs,
                              r \in References }

NoOut == Err("none")
NameState(n, op, path, out) == [n |-> n, op |-> op, path |-> path, out |-> out]

LayoutIdle ==
    /\ fs = [src |-> Absent, dst |-> Absent]
    /\ builder = NoBuilder /\ img = NoImage /\ pc = "idle"
    /\ ret = NoRet /\ cp = NoCp /\ hist = NoHist

InitName ==
    /\ nm \in { NameState(n, "new", <<>>, NoOut) : n \in ImageNames }
    /\ LayoutIdle /\ ClientIdle

\* n.as_path()
AsPath ==
    /\ NameOnly
    /\ nm.op = "new"
    /\ nm' = [nm EXCEPT !.op = "as_path", !.path = as_path(nm.n)]

\* ImageName::from_path(&path) on the path as_path returned
FromPath ==
    /\ NameOnly
    /\ nm.op = "as_path"
    /\ nm' = [nm EXCEPT !.op = "from_path", !.out = from_path(nm.path)]

\* n.as_escaped_path()
AsEscapedPath ==
    /\ NameOnly
    /\ nm.op = "new"
    /\ nm' = [nm EXCEPT !.op = "as_escaped_path", !.path = as_escaped_path(nm.n)]

\* ImageName::from_escaped_path(&path) on the path as_escaped_path returned
FromEscapedPath ==
    /\ NameOnly
    /\ nm.op = "as_escaped_path"
    /\ nm' = [nm EXCEPT !.op = "from_escaped_path", !.out = from_escaped_path(nm.path)]

\* n.reference.encoded()
Encoded ==
    /\ NameOnly
    /\ nm.op = "new"
    /\ nm' = [nm EXCEPT !.op = "encoded", !.path = Reference_encoded(nm.n.reference)]

\* urlencoding::decode on what encoded returned
Decode ==
    /\ NameOnly
    /\ nm.op = "encoded"
    /\ nm' = [nm EXCEPT !.op = "decoded", !.out = urlencoding_decode(nm.path)]

NextName ==
    \/ AsPath
    \/ FromPath
    \/ AsEscapedPath
    \/ FromEscapedPath
    \/ Encoded
    \/ Decode

SpecName == InitName /\ [][NextName]_vars

\* C6: identifier round trip.  For every valid ImageName n (any hostname,
\* optional port, any Name, any Reference that is a tag or a digest),
\* ImageName::from_path(n.as_path()) succeeds and equals n.
C6_PathRoundTrip ==
    nm.op = "from_path" => (nm.out.ok /\ nm.out.val = nm.n)

\* C7: reference encoding round trip.  Percent-decoding r.encoded() yields
\* the string of r for every valid Reference r, and
\* ImageName::from_escaped_path(n.as_escaped_path()) = n for every ImageName n
\* that parse produces.
C7_EncodingRoundTrip ==
    /\ nm.op = "decoded" => (nm.out.ok /\ nm.out.val = nm.n.reference)
    /\ (/\ nm.op = "from_escaped_path"
        /\ ImageName_parse(ImageName_to_string(nm.n)).ok
        /\ ImageName_parse(ImageName_to_string(nm.n)).val = nm.n)
       => (nm.out.ok /\ nm.out.val = nm.n)

(***************************************************************************)
(* SpecBuild: one builder, created with an image name, is given blobs and  *)
(* a manifest by its caller; nothing else is in the file system.           *)
(***************************************************************************)
\* Image names with and without a port, with a tag and with a digest.
BuildNames ==
    { ImageName(<<"h">>, SomePort(80), <<"a">>, <<"a">>),
      ImageName(<<"h">>, NoPort, <<"a">>, <<"A", "_">>),
      ImageName(<<"%", "4", "4">>, NoPort, <<"a", "/", "a">>, <<"a", ":", "A">>),
      ImageName(<<"4">>, SomePort(80), <<"a", "/", "a">>, <<"a", ":", "A">>) }

\* The manifests the caller builds.
NamedManifests == Manifests({ DescOf(b) : b \in SrcBlobs })

InitBuild ==
    /\ fs = [src |-> Absent, dst |-> Absent]
    /\ builder = NoBuilder /\ img = NoImage /\ pc = "idle"
    /\ ret = NoRet /\ cp = NoCp /\ hist = NoHist
    /\ NameIdle /\ ClientIdle

NextBuild ==
    \/ \E n \in BuildNames : OciDirBuilder_new("dst", Some(n))
    \/ \E n \in BuildNames : OciArchiveBuilder_new("dst", Some(n))
    \/ \E b \in RawBlobs : AddBlob(b)
    \/ Drop
    \/ \E m \in NamedManifests : Build(m)
    \/ BuildBlob
    \/ BuildLayout
    \/ BuildIndexJson
    \/ BuildFinish

SpecBuild == InitBuild /\ [][NextBuild]_vars

(***************************************************************************)
(* The distribution client (distribution/client.rs, auth.rs).              *)
(* A URL is [origin, path]; an HTTP exchange is one request with the       *)
(* response it got.  The registry and the token service answer as they     *)
(* like.                                                                   *)
(***************************************************************************)
MaxOps == 2         \* endpoint operations on one Client

ClientOnly == UNCHANGED <<fs, builder, img, pc, ret, cp, hist, nm>>

Url(origin, path) == [origin |-> origin, path |-> path]
RegistryUrl == "https://registry"
NoUrl       == Url("", "")
TokenUrl    == Url("https://auth", "/token")

NoToken == ""
Tokens  == {"t1", "t2"}
NoDigest == [algorithm |-> "", encoded |-> <<>>]

\* A response: status (0: no response, a transport error), the
\* WWW-Authenticate header, the Location header, whether the body is the
\* JSON the caller expects, and the digest the registry acknowledges for an
\* uploaded blob (its Docker-Content-Digest header).
Resp(status, www, loc, json) ==
    [status |-> status, www |-> www, loc |-> loc, json |-> json, digest |-> NoDigest]
NoResp == Resp(0, "none", "none", FALSE)

WwwKinds == {"none", "basic", "bearer", "bearer_no_domain"}
LocKinds == {"none", "abs", "rel", "bad"}

Responses ==
    { Resp(200, "none", l, TRUE) : l \in LocKinds }
    \cup { Resp(200, "none", "none", FALSE) }
    \cup { Resp(401, w, "none", j) : w \in WwwKinds, j \in BOOLEAN }
    \cup { Resp(403, "bearer", "none", TRUE), Resp(0, "none", "none", FALSE) }

\* What the token service answers: a token, or a failure.
TokenResponses == { Resp(200, "none", "none", TRUE), Resp(401, "none", "none", FALSE),
                    Resp(200, "none", "none", FALSE) }

\* ureq: call / send_bytes return Err(Status) for a status of 400 and above and
\* Err(Transport) when no response came.
IsOk(resp) == resp.status # 0 /\ resp.status < 400

\* C8 mutant: any error status that carries the header counts as a challenge.
AuthChallenge_try_from_AnyStatus(resp) ==
    IF resp.status # 0
    THEN IF resp.www # "none"
         THEN IF resp.www \in {"bearer", "bearer_no_domain"} THEN Ok(resp.www)
              ELSE Err("UnsupportedAuthHeader")
         ELSE IF resp.json THEN Err("RegistryError") ELSE Err("InvalidJson")
    ELSE Err("Network")

\* auth.rs: impl TryFrom<ureq::Error> for AuthChallenge, and from_header
AuthChallenge_try_from(resp) ==
    IF resp.status # 0
    THEN IF resp.status = 401 /\ resp.www # "none"
         THEN IF resp.www \in {"bearer", "bearer_no_domain"} THEN Ok(resp.www)
              ELSE Err("UnsupportedAuthHeader")
         ELSE IF resp.json THEN Err("RegistryError") ELSE Err("InvalidJson")
    ELSE Err("Network")

\* auth.rs challenge: Url::parse(&challenge.url)? and token_url.domain()
TokenUrlOf(challenge) == IF challenge = "bearer" THEN Ok(TokenUrl) ELSE Err("InvalidUrl")

\* C9 mutant: call probes without the token whether or not one is cached.
NeedsProbe_Always(token) == TRUE

\* client.rs call: "if self.token.is_none()"
NeedsProbe(token) == token = NoToken

\* The Authorization header carried by a request.
NoAuth        == [scheme |-> "none", credentials |-> ""]
Bearer(token) == [scheme |-> "Bearer", credentials |-> token]
Basic         == [scheme |-> "Basic", credentials |-> "user:pass"]

\* client.rs push_manifest / push_blob: "if let Some(token) = self.token.as_ref()"
AuthOf(token) == IF token = NoToken THEN NoAuth ELSE Bearer(token)

Request(method, url, auth, query, body) ==
    [method |-> method, url |-> url, auth |-> auth, query |-> query, body |-> body]
NoRequest == Request("", NoUrl, NoAuth, NoDigest, <<>>)

\* One exchange on the wire; by: "call" (a request sent by Client::call),
\* "token" (the token fetch of StoredAuth::challenge), "direct".
Exchange(by, req, resp) == [by |-> by, req |-> req, resp |-> resp]

\* What a Location header of kind "abs" / "rel" names.
UploadUrl   == Url("https://upload", "/session")
SessionPath == "/session"

\* C10 mutant: the Location header is ignored and the upload goes to the
\* uploads endpoint again.
LocationUrl_Ignored(loc, base) == Ok(Url(base, "/v2/name/blobs/uploads/"))

\* client.rs: Url::parse(loc).or_else(|_| self.url.join(loc))?
\* (a missing header panics before this is reached)
LocationUrl(loc, base) ==
    CASE loc = "abs" -> Ok(UploadUrl)
      [] loc = "rel" -> Ok(Url(base, SessionPath))
      [] OTHER       -> Err("UrlParse")

\* The result of an endpoint operation; "panic": the operation panicked.
Result(state, digest, url) == [state |-> state, digest |-> digest, url |-> url]
NoResult   == Result("none", NoDigest, NoUrl)
Failed     == Result("err", NoDigest, NoUrl)
Panicked   == Result("panic", NoDigest, NoUrl)
Done       == Result("ok", NoDigest, NoUrl)

\* The URL of an endpoint of the repository.
Endpoint(op) ==
    CASE op = "get_tags"      -> Url(RegistryUrl, "/v2/name/tags/list")
      [] op = "get_manifest"  -> Url(RegistryUrl, "/v2/name/manifests/ref")
      [] op = "push_manifest" -> Url(RegistryUrl, "/v2/name/manifests/ref")
      [] op = "get_blob"      -> Url(RegistryUrl, "/v2/name/blobs/digest")
      [] op = "push_blob"     -> Url(RegistryUrl, "/v2/name/blobs/uploads/")

ClientBlobs == {<<0>>, <<1>>}

\* The digest a registry acknowledges for an upload of blob: the digest of
\* the bytes that reached it, which are the bytes sent unless the body was
\* damaged on the way.
Acknowledged(blob) == { from_buf_sha256(b) : b \in ClientBlobs \cup {blob} }

\* An upload the registry accepted: the digest of the PUT's query and the
\* digest the registry acknowledged.
Upload(digest, stored) == [digest |-> digest, stored |-> stored]

(***************************************************************************)
(* SpecClient: one Client makes up to MaxOps endpoint operations.          *)
(***************************************************************************)
WrappedOps == {"get_tags", "get_manifest", "get_blob", "push_blob"}

NoClient ==
    [token |-> NoToken, basic |-> FALSE, nOps |-> 0, op |-> "", blob |-> <<>>,
     pc |-> "idle", start |-> NoToken, wire |-> <<>>, req |-> NoRequest,
     challenge |-> "", resp |-> NoResp, result |-> NoResult]

NoRegistry == [tokens |-> {}, blobs |-> {}]

\* Client::new with what StoredAuth::load_all found for the token service.
InitClient ==
    /\ cl \in { [NoClient EXCEPT !.basic = b] : b \in BOOLEAN }
    /\ reg = NoRegistry
    /\ LayoutIdle /\ NameIdle

\* An endpoint operation begins: it builds its request and enters call.
\* A panic ends the use of the Client.
BeginCall(op, method, blob) ==
    /\ cl.pc = "idle" /\ cl.result.state # "panic"
    /\ cl' = [cl EXCEPT !.nOps = @ + 1, !.op = op, !.blob = blob,
                        !.start = cl.token, !.wire = <<>>,
                        !.req = Request(method, Endpoint(op), NoAuth, NoDigest, <<>>),
                        !.challenge = "", !.resp = NoResp, !.result = NoResult,
                        !.pc = IF NeedsProbe(cl.token) THEN "probe" ELSE "bearer"]
    /\ UNCHANGED reg

Begin(op, method, blob) == cl.nOps < MaxOps /\ BeginCall(op, method, blob)

\* The operation returns (or panics) with result r after the exchanges es.
Finish(es, r) ==
    cl' = [cl EXCEPT !.wire = @ \o es, !.result = r, !.pc = "idle"]

\* Where the operation goes on when call returned Ok(res).
AfterCall(op) == IF op = "push_blob" THEN "put" ELSE "body"

\* client.rs: get_tags, get_manifest, get_blob, push_blob up to self.call(..)
Client_get_tags     == ClientOnly /\ Begin("get_tags", "GET", <<>>)
Client_get_manifest == ClientOnly /\ Begin("get_manifest", "GET", <<>>)
Client_get_blob     == ClientOnly /\ Begin("get_blob", "GET", <<>>)
Client_push_blob(blob) == ClientOnly /\ Begin("push_blob", "POST", blob)

\* client.rs call: the attempt without a token, then AuthChallenge::try_from
CallProbe ==
    /\ ClientOnly
    /\ cl.pc = "probe"
    /\ \E resp \in Responses :
         LET e == Exchange("call", cl.req, resp)
             c == AuthChallenge_try_from(resp)
         IN  IF IsOk(resp)
             THEN cl' = [cl EXCEPT !.wire = Append(@, e), !.resp = resp,
                                   !.pc = AfterCall(cl.op)]
             ELSE IF c.ok
             THEN cl' = [cl EXCEPT !.wire = Append(@, e), !.challenge = c.val,
                                   !.pc = "challenge"]
             ELSE Finish(<<e>>, Failed)
    /\ UNCHANGED reg

\* client.rs call: self.token = Some(self.auth.challenge(&challenge)?)
Challenge ==
    /\ ClientOnly
    /\ cl.pc = "challenge"
    /\ LET token_url == TokenUrlOf(cl.challenge)
       IN  IF ~token_url.ok THEN Finish(<<>>, Failed) /\ UNCHANGED reg
           ELSE \E resp \in TokenResponses, t \in Tokens :
                  LET req == Request("GET", token_url.val,
                                     IF cl.basic THEN Basic ELSE NoAuth, NoDigest, <<>>)
                      e   == Exchange("token", req, resp)
                  IN  IF IsOk(resp) /\ resp.json
                      THEN /\ cl' = [cl EXCEPT !.wire = Append(@, e), !.token = t,
                                               !.pc = "bearer"]
                           /\ reg' = [reg EXCEPT !.tokens = @ \cup {t}]
                      ELSE Finish(<<e>>, Failed) /\ UNCHANGED reg

\* client.rs call: the request with "Authorization: Bearer <token>"
CallBearer ==
    /\ ClientOnly
    /\ cl.pc = "bearer"
    /\ \E resp \in Responses :
         LET e == Exchange("call", [cl.req EXCEPT !.auth = Bearer(cl.token)], resp)
         IN  IF IsOk(resp)
             THEN cl' = [cl EXCEPT !.wire = Append(@, e), !.resp = resp,
                                   !.pc = AfterCall(cl.op)]
             ELSE Finish(<<e>>, Failed)
    /\ UNCHANGED reg

\* client.rs get_tags / get_manifest / get_blob: the body is read and parsed
ReadBody ==
    /\ ClientOnly
    /\ cl.pc = "body"
    /\ Finish(<<>>, IF cl.resp.json THEN Done ELSE Failed)
    /\ UNCHANGED reg

\* client.rs push_blob, after the POST: the PUT to the Location of the POST
PushBlobPut ==
    /\ ClientOnly
    /\ cl.pc = "put"
    /\ LET url    == LocationUrl(cl.resp.loc, RegistryUrl)
           digest == from_buf_sha256(cl.blob)
       IN  IF cl.resp.loc = "none" THEN Finish(<<>>, Panicked) /\ UNCHANGED reg
           ELSE IF ~url.ok THEN Finish(<<>>, Failed) /\ UNCHANGED reg
           ELSE \E answer \in Responses, stored \in Acknowledged(cl.blob) :
                  LET req  == Request("PUT", url.val, AuthOf(cl.token), digest, cl.blob)
                      resp == IF IsOk(answer) THEN [answer EXCEPT !.digest = stored]
                              ELSE answer
                      e    == Exchange("direct", req, resp)
                      loc  == LocationUrl(resp.loc, RegistryUrl)
                  IN  IF ~IsOk(resp) THEN Finish(<<e>>, Failed) /\ UNCHANGED reg
                      ELSE /\ reg' = [reg EXCEPT !.blobs = @ \cup {Upload(digest, stored)}]
                           /\ IF resp.loc = "none" THEN Finish(<<e>>, Panicked)
                              ELSE IF ~loc.ok THEN Finish(<<e>>, Failed)
                              ELSE Finish(<<e>>, Result("ok", digest, loc.val))

\* client.rs: push_manifest, which does not go through call
push_manifest(manifest) ==
    /\ cl.pc = "idle" /\ cl.result.state # "panic"
    /\ \E resp \in Responses :
         LET req == Request("PUT", Endpoint("push_manifest"), AuthOf(cl.token),
                            NoDigest, to_string(manifest))
             loc == LocationUrl(resp.loc, RegistryUrl)
             r   == IF ~IsOk(resp) THEN Failed
                    ELSE IF resp.loc = "none" THEN Panicked
                    ELSE IF ~loc.ok THEN Failed
                    ELSE Result("ok", NoDigest, loc.val)
         IN  cl' = [cl EXCEPT !.nOps = @ + 1, !.op = "push_manifest", !.blob = <<>>,
                              !.start = cl.token, !.req = NoRequest,
                              !.challenge = "", !.resp = NoResp,
                              !.wire = <<Exchange("direct", req, resp)>>,
                              !.result = r]
    /\ UNCHANGED reg

Client_push_manifest ==
    ClientOnly /\ cl.nOps < MaxOps /\ push_manifest(EmptyManifest)

NextClient ==
    \/ Client_get_tags
    \/ Client_get_manifest
    \/ Client_get_blob
    \/ \E b \in ClientBlobs : Client_push_blob(b)
    \/ Client_push_manifest
    \/ CallProbe
    \/ Challenge
    \/ CallBearer
    \/ ReadBody
    \/ PushBlobPut

SpecClient == InitClient /\ [][NextClient]_vars

(***************************************************************************)
(* Properties of the client (specification SpecClient).                    *)
(***************************************************************************)
\* The exchanges of the running (or last) operation, by who sent them.
SentBy(by) == SelectSeq(cl.wire, LAMBDA e : e.by = by)

\* The operation goes through call, and call has returned.
CallReturned == cl.op \in WrappedOps /\ cl.pc \in {"idle", "body", "put"}

\* The response is a 401 that carries a WWW-Authenticate Bearer challenge.
BearerChallenge(resp) ==
    resp.status = 401 /\ resp.www \in {"bearer", "bearer_no_domain"}

\* C8 (amended): single bearer-token reauthentication.  For a client with no
\* cached token, a request through call that is answered 401 with a Bearer
\* challenge causes one token fetch (none when the realm is not a URL with a
\* domain name) and, exactly when that fetch returns a token, one retry of
\* the same request carrying "Authorization: Bearer <token>"; otherwise the
\* operation returns an error without a retry.  A retry that is answered
\* with an error ends the operation with an error, with no further token
\* fetch or retry; a request is attempted at most twice.
C8_ReauthOnceIfTokenFetched ==
    (cl.op \in WrappedOps /\ cl.start = NoToken) =>
        LET calls   == SentBy("call")
            fetches == SentBy("token")
        IN  /\ Len(calls) <= 2 /\ Len(fetches) <= 1
            /\ Len(calls) >= 1 => (calls[1].req.auth = NoAuth /\ cl.wire[1] = calls[1])
            /\ (CallReturned /\ Len(calls) >= 1 /\ BearerChallenge(calls[1].resp)) =>
                  /\ Len(fetches) = 1 <=> calls[1].resp.www = "bearer"
                  /\ Len(calls) = 2 <=>
                        (/\ Len(fetches) = 1
                         /\ IsOk(fetches[1].resp) /\ fetches[1].resp.json)
                  /\ Len(calls) = 1 => cl.result = Failed
            /\ Len(calls) = 2 =>
                  /\ BearerChallenge(calls[1].resp)
                  /\ cl.token \in Tokens
                  /\ calls[2].req = [calls[1].req EXCEPT !.auth = Bearer(cl.token)]
                  /\ cl.wire[2].by = "token" /\ cl.wire[3] = calls[2]
            /\ (Len(calls) = 2 /\ ~IsOk(calls[2].resp)) =>
                  /\ cl.pc = "idle" /\ cl.result = Failed
                  /\ Len(cl.wire) = 3

\* C8 witness: the retry with the fetched token was answered 401 again and
\* the operation returned an error after its two attempts.
C8_Witness ==
    /\ cl.op \in WrappedOps /\ cl.start = NoToken /\ cl.pc = "idle"
    /\ Len(SentBy("call")) = 2 /\ Len(SentBy("token")) = 1
    /\ SentBy("call")[2].resp.status = 401
    /\ cl.result = Failed

\* C8 as stated: a request through call that is answered 401 with a Bearer
\* challenge causes exactly one token fetch and exactly one retry carrying
\* the Bearer token, and a retry answered with an error ends the operation.
C8_ReauthExactlyOnce ==
    (/\ cl.op \in WrappedOps /\ cl.start = NoToken /\ CallReturned
     /\ Len(SentBy("call")) >= 1 /\ BearerChallenge(SentBy("call")[1].resp))
    => /\ Len(SentBy("token")) = 1
       /\ Len(SentBy("call")) = 2
       /\ SentBy("call")[2].req.auth = Bearer(cl.token)
       /\ ~IsOk(SentBy("call")[2].resp) => cl.result = Failed

\* C9: cached-token reuse.  An operation begun while the client holds a token
\* sends its request through call exactly once, first on the wire and
\* carrying that token as Bearer, with no attempt without it and no token
\* fetch; the token stays the cached one.
C9_CachedTokenReuse ==
    (cl.op \in WrappedOps /\ cl.start # NoToken) =>
        LET calls == SentBy("call")
        IN  /\ SentBy("token") = <<>>
            /\ cl.token = cl.start
            /\ Len(calls) <= 1
            /\ CallReturned => Len(calls) = 1
            /\ Len(calls) = 1 =>
                  /\ cl.wire[1] = calls[1]
                  /\ calls[1].req = [cl.req EXCEPT !.auth = Bearer(cl.start)]

\* C9 witness: the second operation of a client, a get_blob begun with the
\* token the first one fetched, has returned successfully.
C9_Witness ==
    /\ cl.nOps = 2 /\ cl.op = "get_blob" /\ cl.start # NoToken
    /\ cl.pc = "idle" /\ cl.result = Done
    /\ Len(cl.wire) = 1

\* C10: two-phase blob upload ordering.  push_blob sends at most one PUT, and
\* only after the POST to the uploads endpoint succeeded: to the URL of that
\* POST's Location header, with the query digest = sha256 of the blob and the
\* blob as body.  It sends no PUT when the POST failed, and returns (digest,
\* location) only when both the POST and the PUT succeeded.
C10_TwoPhaseUpload ==
    cl.op = "push_blob" =>
        LET posts == SentBy("call")
            puts  == SentBy("direct")
            post  == posts[Len(posts)]
        IN  /\ Len(puts) <= 1
            /\ \A i \in 1..Len(posts) :
                  /\ posts[i].req.method = "POST"
                  /\ posts[i].req.url = Url(RegistryUrl, "/v2/name/blobs/uploads/")
            /\ (posts = <<>> \/ ~IsOk(post.resp)) => puts = <<>>
            /\ puts # <<>> =>
                  /\ IsOk(post.resp)
                  /\ post.resp.loc \in {"abs", "rel"}
                  /\ cl.wire[Len(cl.wire)] = puts[1]
                  /\ puts[1].req.method = "PUT"
                  /\ puts[1].req.url = IF post.resp.loc = "abs" THEN UploadUrl
                                       ELSE Url(RegistryUrl, SessionPath)
                  /\ puts[1].req.query = [algorithm |-> "sha256",
                                          encoded |-> Sha256Hex(cl.blob)]
                  /\ puts[1].req.body = cl.blob
            /\ cl.result.state = "ok" =>
                  /\ puts # <<>> /\ IsOk(puts[1].resp)
                  /\ cl.result.digest = [algorithm |-> "sha256",
                                         encoded |-> Sha256Hex(cl.blob)]
                  /\ puts[1].resp.loc \in {"abs", "rel"}
                  /\ cl.result.url = IF puts[1].resp.loc = "abs" THEN UploadUrl
                                     ELSE Url(RegistryUrl, SessionPath)

\* C10 witness: a push_blob by a client without a token returned (digest,
\* location): POST, token fetch, POST with Bearer, then the PUT with Bearer
\* to an absolute Location.
C10_Witness ==
    /\ cl.op = "push_blob" /\ cl.start = NoToken
    /\ cl.pc = "idle" /\ cl.result.state = "ok"
    /\ Len(cl.wire) = 4
    /\ cl.wire[3].resp.loc = "abs"
    /\ cl.wire[4].req.auth = Bearer(cl.token)
    /\ cl.blob = <<1>>

(***************************************************************************)
(* The remote builder (image/remote.rs), driven by copy (image/layout.rs)  *)
(* and by OciArtifactBuilder (image/oci_artifact.rs).  SpecRemote: one     *)
(* RemoteBuilder is used by one copy, or by one OciArtifactBuilder whose   *)
(* caller goes on as it likes after a call that returned an error.         *)
(***************************************************************************)
MaxRemoteLayers == 1    \* layers of a manifest copied to the registry
MaxRemoteAdds   == 1    \* add_config / add_layer calls on one OciArtifactBuilder

RemoteOnly == UNCHANGED <<fs, builder, img, pc, nm>>

\* layout.rs add_empty_json: b"{}"
EmptyJson == <<123, 125>>

\* One call of the builder: add_blob(blob) or build(manifest), with how the
\* client's push_blob / push_manifest ended and what the call returned.
Push(call, blob, manifest, state, r) ==
    [call |-> call, blob |-> blob, manifest |-> manifest, state |-> state, ret |-> r]

\* C11 mutant: add_blob returns the local digest whether or not the push
\* succeeded.
RemoteBuilder_add_blob_Always(result, data) ==
    Ok(Desc(from_buf_sha256(data), Len(data)))

\* remote.rs RemoteBuilder::add_blob:
\* "let (digest, _url) = self.client.push_blob(data)?; Ok((digest, data.len()))"
RemoteBuilder_add_blob(result, data) ==
    IF result.state = "ok" THEN Ok(Desc(result.digest, Len(data)))
    ELSE Err("push_blob")

\* remote.rs RemoteBuilder::build: "self.client.push_manifest(..)?; Ok(Remote {..})"
RemoteBuilder_build(result) ==
    IF result.state = "ok" THEN Ok("Remote") ELSE Err("push_manifest")

\* via: who drives the builder; at: where the driver stands; manifest: the
\* manifest copied, or the one the OciArtifactBuilder holds; i: the
\* descriptor copy is at; nAdds: add_config / add_layer calls made.
NoRemote ==
    [via |-> "none", at |-> "idle", manifest |-> EmptyManifest, i |-> 0, nAdds |-> 0]

\* RemoteBuilder::new for a host that has no stored credential.
InitRemote ==
    /\ cl = NoClient
    /\ reg = NoRegistry
    /\ cp = NoRemote /\ hist = <<>> /\ ret = NoRet
    /\ fs = [src |-> Absent, dst |-> Absent]
    /\ builder = NoBuilder /\ img = NoImage /\ pc = "idle"
    /\ NameIdle

\* The manifests of the images copied to the registry.
RemoteManifests ==
    { [config |-> DescOf(c), layers |-> ls] :
        c \in ClientBlobs,
        ls \in SeqsUpTo({ DescOf(b) : b \in ClientBlobs }, MaxRemoteLayers) }

\* copy: from.get_name()? and from.get_manifest()? returned manifest
RemoteCopy(manifest) ==
    /\ RemoteOnly
    /\ cp.via = "none"
    /\ cp' = [cp EXCEPT !.via = "copy", !.at = "get_blob",
                        !.manifest = manifest, !.i = 1]
    /\ UNCHANGED <<cl, reg, hist, ret>>

\* copy: the descriptor at hand, the layers in order and then the config
CopyDesc ==
    IF cp.i <= Len(cp.manifest.layers) THEN cp.manifest.layers[cp.i]
    ELSE cp.manifest.config

\* copy: "let blob = from.get_blob(digest)?" (the source answers as it
\* likes) and the call of to.add_blob(&blob), which enters push_blob
RemoteCopyBlob ==
    /\ RemoteOnly
    /\ cp.via = "copy" /\ cp.at = "get_blob"
    /\ \/ /\ cp' = [cp EXCEPT !.at = "failed"]
          /\ ret' = Ret("copy", Err("get_blob"))
          /\ UNCHANGED <<cl, reg, hist>>
       \/ \E blob \in ClientBlobs :
            /\ BeginCall("push_blob", "POST", blob)
            /\ cp' = [cp EXCEPT !.at = "add_blob"]
            /\ UNCHANGED <<hist, ret>>

\* copy: to.add_blob(&blob)? has returned; the two comparisons; the next
\* descriptor, or build after the config.  A panic ends the program.
RemoteCopyAdded ==
    /\ RemoteOnly
    /\ cp.via = "copy" /\ cp.at = "add_blob" /\ cl.pc = "idle"
    /\ LET r == RemoteBuilder_add_blob(cl.result, cl.blob)
       IN  /\ hist' = Append(hist, Push("add_blob", cl.blob, cp.manifest, cl.result.state, r))
           /\ IF cl.result.state = "panic"
              THEN cp' = [cp EXCEPT !.at = "panic"] /\ UNCHANGED ret
              ELSE IF ~r.ok
              THEN cp' = [cp EXCEPT !.at = "failed"] /\ ret' = Ret("copy", r)
              ELSE IF DigestMismatch(CopyDesc, r.val) \/ SizeMismatch(CopyDesc, r.val)
              THEN /\ cp' = [cp EXCEPT !.at = "failed"]
                   /\ ret' = Ret("copy", Err("mismatch"))
              ELSE /\ cp' = [cp EXCEPT !.i = @ + 1,
                                       !.at = IF cp.i > Len(cp.manifest.layers)
                                              THEN "build" ELSE "get_blob"]
                   /\ UNCHANGED ret
    /\ UNCHANGED <<cl, reg>>

\* The builder's build(manifest): the PUT of the manifest and what the
\* caller gets back.
RemoteBuild(caller) ==
    /\ push_manifest(cp.manifest)
    /\ LET r == RemoteBuilder_build(cl'.result)
       IN  /\ hist' = Append(hist, Push("build", <<>>, cp.manifest, cl'.result.state, r))
           /\ cp' = [cp EXCEPT !.at = IF cl'.result.state = "panic" THEN "panic"
                                      ELSE "built"]
           /\ ret' = Ret(caller, r)

\* copy: "to.build(manifest)"
RemoteCopyBuild ==
    /\ RemoteOnly
    /\ cp.via = "copy" /\ cp.at = "build"
    /\ RemoteBuild("copy")

\* oci_artifact.rs OciArtifactBuilder::new: layout.add_empty_json()?
OciArtifactBuilder_new ==
    /\ RemoteOnly
    /\ cp.via = "none"
    /\ BeginCall("push_blob", "POST", EmptyJson)
    /\ cp' = [cp EXCEPT !.via = "artifact", !.at = "new"]
    /\ UNCHANGED <<hist, ret>>

\* oci_artifact.rs add_config / add_layer: self.layout.add_blob(blob)?
OciArtifactBuilder_add(what, blob) ==
    /\ RemoteOnly
    /\ cp.via = "artifact" /\ cp.at = "ready" /\ cp.nAdds < MaxRemoteAdds
    /\ BeginCall("push_blob", "POST", blob)
    /\ cp' = [cp EXCEPT !.at = what, !.nAdds = @ + 1]
    /\ UNCHANGED <<hist, ret>>

OciArtifactBuilder_add_config(blob) == OciArtifactBuilder_add("add_config", blob)
OciArtifactBuilder_add_layer(blob)  == OciArtifactBuilder_add("add_layer", blob)

\* oci_artifact.rs new / add_config / add_layer after add_blob returned: on
\* an error the call returns it and the manifest is as it was; otherwise the
\* descriptor becomes the config (set_config) or is pushed onto the layers.
\* new returns no builder on an error.
OciArtifactAdded ==
    /\ RemoteOnly
    /\ cp.via = "artifact" /\ cp.at \in {"new", "add_config", "add_layer"}
    /\ cl.pc = "idle"
    /\ LET r == RemoteBuilder_add_blob(cl.result, cl.blob)
       IN  /\ hist' = Append(hist, Push("add_blob", cl.blob, cp.manifest, cl.result.state, r))
           /\ ret' = Ret(cp.at, r)
           /\ cp' = IF cl.result.state = "panic" THEN [cp EXCEPT !.at = "panic"]
                    ELSE IF ~r.ok
                    THEN [cp EXCEPT !.at = IF cp.at = "new" THEN "failed" ELSE "ready"]
                    ELSE IF cp.at = "add_layer"
                    THEN [cp EXCEPT !.at = "ready",
                                    !.manifest.layers = Append(@, r.val)]
                    ELSE [cp EXCEPT !.at = "ready", !.manifest.config = r.val]
    /\ UNCHANGED <<cl, reg>>

\* oci_artifact.rs build: self.layout.build(self.manifest)?
OciArtifactBuilder_build ==
    /\ RemoteOnly
    /\ cp.via = "artifact" /\ cp.at = "ready"
    /\ RemoteBuild("build")

NextRemote ==
    \/ \E m \in RemoteManifests : RemoteCopy(m)
    \/ RemoteCopyBlob
    \/ RemoteCopyAdded
    \/ RemoteCopyBuild
    \/ OciArtifactBuilder_new
    \/ \E b \in ClientBlobs : OciArtifactBuilder_add_config(b)
    \/ \E b \in ClientBlobs : OciArtifactBuilder_add_layer(b)
    \/ OciArtifactAdded
    \/ OciArtifactBuilder_build
    \/ CallProbe
    \/ Challenge
    \/ CallBearer
    \/ PushBlobPut

SpecRemote == InitRemote /\ [][NextRemote]_vars

(***************************************************************************)
(* Properties of the remote builder (specification SpecRemote).            *)
(***************************************************************************)
\* The digests a manifest refers to: its config and every layer.
Referenced(manifest) ==
    {manifest.config.digest}
        \cup { manifest.layers[i].digest : i \in DOMAIN manifest.layers }

\* The digests whose upload the registry accepted.
Uploaded == { u.digest : u \in reg.blobs }

\* A push_blob made before the k-th call of the builder did not succeed.
FailedBefore(k) ==
    \E j \in 1..(k - 1) : hist[j].call = "add_blob" /\ hist[j].state # "ok"

\* The k-th call of the builder is a build, which sent the manifest PUT.
IsBuild(k) == k \in DOMAIN hist /\ hist[k].call = "build"

\* C11 (amended): manifest is pushed last.  When an image is written through
\* RemoteBuilder by copy() or by OciArtifactBuilder, the PUT of the manifest
\* is the last request of the builder, carries the serialized manifest, and
\* is issued only after every blob that manifest refers to (its config and
\* every layer) was pushed successfully.  copy() issues no manifest PUT if
\* any blob push failed; an OciArtifactBuilder whose add_config or add_layer
\* returned an error keeps its manifest as it was, and a later build() still
\* PUTs that manifest.
C11_ManifestAfterItsBlobs ==
    \A k \in DOMAIN hist : IsBuild(k) =>
        /\ k = Len(hist)
        /\ Referenced(hist[k].manifest) \subseteq Uploaded
        /\ \A d \in Referenced(hist[k].manifest) :
              \E j \in 1..(k - 1) :
                 /\ hist[j].call = "add_blob" /\ hist[j].state = "ok"
                 /\ from_buf_sha256(hist[j].blob) = d
        /\ cp.via = "copy" => ~FailedBefore(k)
        /\ cl.op = "push_manifest" /\ Len(cl.wire) = 1
        /\ cl.wire[1].req.method = "PUT"
        /\ cl.wire[1].req.url = Endpoint("push_manifest")
        /\ cl.wire[1].req.body = to_string(hist[k].manifest)

\* C11 witness: a copy of a manifest with one layer and a different config
\* pushed both blobs and then the manifest, and returned the image.
C11_Witness ==
    /\ cp.via = "copy" /\ cp.at = "built" /\ ret.ok
    /\ Len(hist) = 3 /\ IsBuild(3)
    /\ Len(cp.manifest.layers) = 1
    /\ cp.manifest.layers[1] # cp.manifest.config

\* C11 as stated: no manifest PUT is issued if any blob push failed, by
\* copy() or by OciArtifactBuilder.
C11_NoPutAfterFailedPush ==
    \A k \in DOMAIN hist : IsBuild(k) =>
        /\ Referenced(hist[k].manifest) \subseteq Uploaded
        /\ ~FailedBefore(k)

\* C18 as stated: remote blob push verifies the server's digest.  When the
\* registry accepted the upload, RemoteBuilder.add_blob returns the digest
\* the registry acknowledged together with the original byte length, and
\* returns an error whenever the local SHA-256 digest differs from the
\* acknowledged one.
C18_ServerDigestVerified ==
    (/\ hist # <<>> /\ hist[Len(hist)].call = "add_blob"
     /\ cl.op = "push_blob" /\ cl.pc = "idle"
     /\ SentBy("direct") # <<>> /\ IsOk(SentBy("direct")[1].resp))
    => LET add   == hist[Len(hist)]
           acked == SentBy("direct")[1].resp.digest
       IN  /\ add.ret.ok => add.ret.val = Desc(acked, Len(add.blob))
           /\ from_buf_sha256(add.blob) # acked => ~add.ret.ok

\* C19 as stated, for requests whose challenge names a token service that
\* then returns a token: every request sent without Authorization by a
\* client with no cached token and answered 401 with a Bearer challenge is
\* followed by a token fetch and, when the fetch returned a token, by one
\* retry of the request carrying the Bearer token.  This holds for
\* get_tags, get_manifest, get_blob, push_manifest and for both the POST and
\* the PUT of push_blob.
C19_EveryRequestReauth ==
    \A i \in DOMAIN cl.wire :
        (/\ cl.pc = "idle" /\ cl.wire[i].by # "token"
         /\ cl.wire[i].req.auth = NoAuth
         /\ cl.wire[i].resp.status = 401 /\ cl.wire[i].resp.www = "bearer")
        => /\ i + 1 \in DOMAIN cl.wire /\ cl.wire[i + 1].by = "token"
           /\ (IsOk(cl.wire[i + 1].resp) /\ cl.wire[i + 1].resp.json) =>
                 /\ i + 2 \in DOMAIN cl.wire
                 /\ cl.wire[i + 2].req = [cl.wire[i].req EXCEPT !.auth = Bearer(cl.token)]

(***************************************************************************)
(* Properties of the builders (specification SpecBuild).                   *)
(***************************************************************************)
\* C13 as stated: the tar builder leaves no referenced partial image.  When
\* an OciArchiveBuilder was dropped without build, or its build returned an
\* error at any step, the archive file has no index.json entry naming a
\* manifest, and get_name and get_manifest of a reader opened over the file
\* fail.
C13_NoReferencedPartialImage ==
    (/\ hist.kind = "oci-archive" /\ hist.dropped /\ ~hist.buildOk
     /\ fs[hist.root].kind = "file")
    => LET image == Image("oci-archive", hist.root)
           index == OciArchive_get_index(fs, hist.root)
       IN  /\ ~(index.ok /\ index.val.manifests # <<>>)
           /\ ~get_name(fs, image).ok
           /\ ~get_manifest(fs, image).ok

\* The entry of an archive that holds the blob data under its digest's path.
BlobEntry(data) == Entry(Digest_as_path(from_buf_sha256(data)), data)

\* C20 as stated: archive contents and order.  After OciArchiveBuilder.build
\* succeeded the tar file holds, in this order, one blobs/sha256/<hex> entry
\* per add_blob call (that returned Ok), the manifest blob, index.json with
\* one manifest descriptor that carries the ref.name annotation, and an
\* oci-layout entry with the layout version 1.0.0; and nothing else.
C20_ArchiveContents ==
    (/\ ret.op = "build" /\ ret.ok /\ hist.kind = "oci-archive"
     /\ hist.built # <<>>)
    => LET es == fs[hist.root].entries
           n  == Len(es) - 3
       IN  /\ n >= 0 /\ n <= hist.nAdds
           /\ \A i \in 1..n : es[i] = BlobEntry(es[i].data)
           /\ { es[i].data : i \in 1..n } = { a.data : a \in hist.added }
           /\ es[n + 1] = BlobEntry(to_string(hist.built[1].manifest))
           /\ es[n + 2].path = IndexPath
           /\ Len(es[n + 2].data.manifests) = 1
           /\ es[n + 2].data.manifests[1].name
                 = ImageName_to_string(hist.built[1].image_name[1])
           /\ es[n + 3] = Entry(OciLayoutPath, LayoutVersion)

(***************************************************************************)
(* Artifact::unpack (image/artifact.rs).  SpecUnpack: fs["dst"] is the     *)
(* local directory image_dir(name) of the artifact's image name; a file    *)
(* in it holds "old" (it was there before the call) or "new" (the call     *)
(* wrote it).  The artifact's layers are tar archives of file names.       *)
(***************************************************************************)
MaxUnpackLayers == 2    \* layers of the artifact unpacked

UnpackOnly == UNCHANGED <<builder, img, hist, nm, cl, reg>>

\* The files of a directory tree: two files of a layer and the .oci-dir.
LayerFiles == {FilePath("a"), FilePath("b")}
OciDirFile == FilePath(".oci-dir")

OldDirs ==
    { DirOf([p \in S |-> "old"]) : S \in SUBSET (LayerFiles \cup {OciDirFile}) }

\* Writing the files S into the directory d.
WriteNew(d, S) == DirOf([p \in S |-> "new"] @@ d.files)

\* overwrite: the argument of unpack; before: the directory when unpack was
\* called; layers: the layers of the artifact; i: the layer unpack is at.
NoUnpack == [overwrite |-> FALSE, before |-> Absent, layers |-> <<>>, i |-> 0]

InitUnpack ==
    /\ fs \in { [src |-> Absent, dst |-> d] : d \in {Absent} \cup OldDirs }
    /\ cp \in { [NoUnpack EXCEPT !.layers = ls] :
                  ls \in SeqsUpTo((SUBSET LayerFiles) \ {{}}, MaxUnpackLayers) }
    /\ pc = "idle" /\ ret = NoRet
    /\ builder = NoBuilder /\ img = NoImage /\ hist = NoHist
    /\ NameIdle /\ ClientIdle

\* C14 mutant: an existing destination is no reason to stop.
DestinationCheck_NoBail(exists, overwrite) ==
    IF exists /\ overwrite THEN "remove" ELSE "create"

\* unpack: "if dest.exists() { if overwrite { remove_dir_all } else { bail! } }"
DestinationCheck(exists, overwrite) ==
    IF exists THEN (IF overwrite THEN "remove" ELSE "bail") ELSE "create"

UnpackReturn(r) == pc' = "done" /\ ret' = Ret("unpack", r)

\* unpack(overwrite): self.base.get_name()?, image_dir(&image_name)?, and
\* the test of dest.exists()
Unpack(overwrite) ==
    /\ UnpackOnly
    /\ pc = "idle"
    /\ cp' = [cp EXCEPT !.overwrite = overwrite, !.before = fs["dst"]]
    /\ \/ UnpackReturn(Err("get_name"))
       \/ LET to == DestinationCheck(fs["dst"].kind # "absent", overwrite)
          IN  IF to = "bail" THEN UnpackReturn(Err("Destination already exists"))
              ELSE pc' = to /\ ret' = NoRet
    /\ UNCHANGED fs

\* unpack: fs::remove_dir_all(&dest)?; a failure may leave a part of the tree
UnpackRemove ==
    /\ UnpackOnly
    /\ pc = "remove"
    /\ \/ fs' = [fs EXCEPT !["dst"] = Absent] /\ pc' = "create" /\ UNCHANGED ret
       \/ \E S \in SUBSET (DOMAIN fs["dst"].files) :
            /\ fs' = [fs EXCEPT !["dst"] = DirOf([p \in S |-> fs["dst"].files[p]])]
            /\ UnpackReturn(Err("UnknownIo"))
    /\ UNCHANGED cp

\* unpack: fs::create_dir_all(&dest)?
UnpackCreate ==
    /\ UnpackOnly
    /\ pc = "create"
    /\ \/ fs' = [fs EXCEPT !["dst"] = DirOf(NoFiles)] /\ pc' = "copy" /\ UNCHANGED ret
       \/ UnpackReturn(Err("UnknownIo")) /\ UNCHANGED fs
    /\ UNCHANGED cp

\* unpack: OciDirBuilder::new(dest.join(".oci-dir"), ..)? and copy(..)?; on
\* an error the dropped builder removes .oci-dir, if the removal succeeds
UnpackCopy ==
    /\ UnpackOnly
    /\ pc = "copy"
    /\ \/ /\ fs' = [fs EXCEPT !["dst"] = WriteNew(@, {OciDirFile})]
          /\ pc' = "layers" /\ UNCHANGED ret
          /\ cp' = [cp EXCEPT !.i = 1]
       \/ /\ \E S \in SUBSET {OciDirFile} :
               fs' = [fs EXCEPT !["dst"] = WriteNew(@, S)]
          /\ UnpackReturn(Err("copy"))
          /\ UNCHANGED cp

\* unpack: the loop over get_layers, tar::Archive::unpack(&dest)? for each;
\* a failing unpack may have written a part of the layer's files
UnpackLayer ==
    /\ UnpackOnly
    /\ pc = "layers"
    /\ IF cp.i > Len(cp.layers)
       THEN UnpackReturn(Ok("OciDir")) /\ UNCHANGED <<fs, cp>>
       ELSE \/ /\ fs' = [fs EXCEPT !["dst"] = WriteNew(@, cp.layers[cp.i])]
               /\ cp' = [cp EXCEPT !.i = @ + 1]
               /\ UNCHANGED <<pc, ret>>
            \/ /\ \E S \in SUBSET cp.layers[cp.i] :
                    fs' = [fs EXCEPT !["dst"] = WriteNew(@, S)]
               /\ UnpackReturn(Err("unpack"))
               /\ UNCHANGED cp

NextUnpack ==
    \/ \E overwrite \in BOOLEAN : Unpack(overwrite)
    \/ UnpackRemove
    \/ UnpackCreate
    \/ UnpackCopy
    \/ UnpackLayer

SpecUnpack == InitUnpack /\ [][NextUnpack]_vars

\* The files of the directory that hold content c.
FilesHolding(c) == { p \in DOMAIN fs["dst"].files : fs["dst"].files[p] = c }

\* unpack has been called on a directory that existed.
UnpackOnExisting == pc # "idle" /\ cp.before.kind # "absent"

\* C14: unpack(overwrite=false) never clobbers.  When the local directory of
\* the image name exists at the call, unpack(false) leaves the directory and
\* everything in it unchanged and returns an error; unpack(true) writes
\* nothing into the directory while anything of the old tree is left in it
\* (the old tree is removed first, and a failed removal ends the call).
C14_NoClobber ==
    UnpackOnExisting =>
        /\ ~cp.overwrite =>
              /\ fs["dst"] = cp.before
              /\ pc = "done" /\ ~ret.ok
        /\ cp.overwrite =>
              /\ FilesHolding("new") # {} => FilesHolding("old") = {}
              /\ pc \in {"copy", "layers"} => FilesHolding("old") = {}
              /\ (pc = "done" /\ ret.ok) => FilesHolding("old") = {}

\* C14 witness: unpack(false) returned an error on a directory that held
\* the three files, which are all still there.
C14_Witness ==
    /\ UnpackOnExisting /\ ~cp.overwrite /\ pc = "done" /\ ~ret.ok
    /\ FilesHolding("old") = LayerFiles \cup {OciDirFile}
    /\ cp.layers # <<>>


(***************************************************************************)
(* Stored credentials (distribution/auth.rs).  SpecAuth: cp.store is a     *)
(* StoredAuth (its auths map: a function from hosts to base64 strings),    *)
(* changed by append; load_all merges the three credential files.          *)
(***************************************************************************)
MaxAppends == 2    \* append calls on the store

AuthOnly == UNCHANGED <<fs, builder, img, hist, nm, cl, reg>>

\* The standard base64 alphabet; the value of a symbol is its index - 1.
Base64Alphabet ==
    <<"A","B","C","D","E","F","G","H","I","J","K","L","M","N","O","P",
      "Q","R","S","T","U","V","W","X","Y","Z","a","b","c","d","e","f",
      "g","h","i","j","k","l","m","n","o","p","q","r","s","t","u","v",
      "w","x","y","z","0","1","2","3","4","5","6","7","8","9","+","/">>

IsBase64(c) == \E k \in 1..64 : Base64Alphabet[k] = c
Base64Value(c) == (CHOOSE k \in 1..64 : Base64Alphabet[k] = c) - 1

\* The bytes of one group of four symbols; "=" pads the last group only,
\* and the bits a padded group leaves over must be zero.
DecodeGroup(g, last) ==
    LET v(k) == Base64Value(g[k])
    IN  IF \A k \in 1..4 : IsBase64(g[k])
        THEN LET n == v(1) * 262144 + v(2) * 4096 + v(3) * 64 + v(4)
             IN  Ok(<<n \div 65536, (n \div 256) % 256, n % 256>>)
        ELSE IF last /\ IsBase64(g[1]) /\ IsBase64(g[2]) /\ IsBase64(g[3])
                  /\ g[4] = "="
        THEN LET n == v(1) * 4096 + v(2) * 64 + v(3)
             IN  IF n % 4 = 0 THEN Ok(<<n \div 1024, (n \div 4) % 256>>)
                 ELSE Err("InvalidLastSymbol")
        ELSE IF last /\ IsBase64(g[1]) /\ IsBase64(g[2])
                  /\ g[3] = "=" /\ g[4] = "="
        THEN LET n == v(1) * 64 + v(2)
             IN  IF n % 16 = 0 THEN Ok(<<n \div 16>>)
                 ELSE Err("InvalidLastSymbol")
        ELSE Err("InvalidByte")

\* STANDARD.decode: padded base64, a whole number of groups.
RECURSIVE Base64Decode(_)
Base64Decode(s) ==
    IF Len(s) = 0 THEN Ok(<<>>)
    ELSE IF Len(s) < 4 THEN Err("InvalidPadding")
    ELSE LET g    == DecodeGroup(SubSeq(s, 1, 4), Len(s) = 4)
             rest == Base64Decode(SubSeq(s, 5, Len(s)))
         IN  IF ~g.ok THEN g
             ELSE IF ~rest.ok THEN rest
             ELSE Ok(g.val \o rest.val)

\* decoded.split(|b| *b == b':').count()
SplitCount(bytes) == 1 + Cardinality({ k \in 1..Len(bytes) : bytes[k] = 58 })

\* Auth::is_valid
Auth_is_valid(auth) ==
    LET decoded == Base64Decode(auth)
    IN  decoded.ok /\ SplitCount(decoded.val) = 2

\* The auth strings of the model: ":" and "a:b" (valid), "ab" and "::" and
\* the empty string (one or three parts), and three strings STANDARD.decode
\* rejects (left-over bits, a short group, a symbol outside the alphabet).
AuthStrings ==
    { <<"O","g","=","=">>, <<"Y","T","p","i">>,
      <<"Y","W","I","=">>, <<"O","j","o","=">>, <<>>,
      <<"O","h","=","=">>, <<"O","g","=">>, <<"O","!","=","=">> }

Hosts == {"h1", "h2"}
AuthsOver(H) == UNION { [D -> AuthStrings] : D \in SUBSET H }

\* C15 mutant: append takes every entry of other.
StoredAuth_append_All(store, other) ==
    [h \in DOMAIN store \cup DOMAIN other |->
        IF h \in DOMAIN other THEN other[h] ELSE store[h]]

\* StoredAuth::append: insert the valid entries of other
StoredAuth_append(store, other) ==
    LET valid == { h \in DOMAIN other : Auth_is_valid(other[h]) }
    IN  [h \in DOMAIN store \cup valid |->
            IF h \in valid THEN other[h] ELSE store[h]]

\* StoredAuth::default()
DefaultAuth == <<>>

\* StoredAuth::from_path of a file holding the map loaded, or of a path
\* that is no readable JSON file
Unreadable == [ok |-> FALSE]
AuthFile(loaded) == [ok |-> TRUE, loaded |-> loaded]
StoredAuth_from_path(file) ==
    IF file.ok THEN Ok(StoredAuth_append(DefaultAuth, file.loaded))
    ELSE Err("Auth file not found")

\* The order of load_all: [docker_auth_path(), podman_auth_path(), auth_path()]
AuthPaths == <<"docker", "podman", "ocipkg">>
AuthFiles == {Unreadable} \cup { AuthFile(a) : a \in AuthsOver({"h1"}) }

\* store, before, other, nAppends: the store, and its last append;
\* files, i, auth: the files load_all reads, its position, its accumulator.
NoAuthState ==
    [store |-> DefaultAuth, before |-> DefaultAuth, other |-> DefaultAuth,
     nAppends |-> 0, files |-> <<>>, i |-> 0, auth |-> <<>>]

InitAuth ==
    /\ cp = NoAuthState
    /\ pc = "idle" /\ ret = NoRet
    /\ fs = [l \in Locs |-> Absent]
    /\ builder = NoBuilder /\ img = NoImage /\ hist = NoHist
    /\ NameIdle /\ ClientIdle

\* store.append(other)
StoreAppend(other) ==
    /\ AuthOnly
    /\ pc = "idle" /\ cp.nAppends < MaxAppends
    /\ cp' = [cp EXCEPT !.store = StoredAuth_append(cp.store, other),
                        !.before = cp.store, !.other = other,
                        !.nAppends = @ + 1]
    /\ ret' = Ret("append", Ok(""))
    /\ UNCHANGED pc

\* StoredAuth::load_all: "let mut auth = None"
LoadAll(files) ==
    /\ AuthOnly
    /\ pc = "idle" /\ cp.nAppends = 0 /\ cp.i = 0
    /\ cp' = [cp EXCEPT !.files = files, !.i = 1, !.auth = <<>>]
    /\ pc' = "load_all"
    /\ UNCHANGED ret

\* load_all: one turn of the loop over the paths
LoadAllPath ==
    /\ AuthOnly
    /\ pc = "load_all" /\ cp.i <= Len(AuthPaths)
    /\ LET new   == StoredAuth_from_path(cp.files[AuthPaths[cp.i]])
           sofar == IF cp.auth = <<>> THEN DefaultAuth ELSE cp.auth[1]
       IN  cp' = [cp EXCEPT !.i = @ + 1,
                            !.auth = IF new.ok
                                     THEN <<StoredAuth_append(sofar, new.val)>>
                                     ELSE @]
    /\ UNCHANGED <<pc, ret>>

\* load_all: auth.context("No valid auth info found")
LoadAllReturn ==
    /\ AuthOnly
    /\ pc = "load_all" /\ cp.i > Len(AuthPaths)
    /\ pc' = "done"
    /\ ret' = Ret("load_all", IF cp.auth = <<>>
                              THEN Err("No valid auth info found")
                              ELSE Ok(cp.auth[1]))
    /\ UNCHANGED cp

\* Client::new: "let auth = StoredAuth::load_all()?; Ok(Client { .., auth,
\* token: None })", once load_all has returned
Client_new ==
    /\ AuthOnly
    /\ pc = "done" /\ ret.op = "load_all"
    /\ ret' = Ret("Client::new", IF ret.ok
                                 THEN Ok([auth |-> ret.val, token |-> NoToken])
                                 ELSE Err(ret.val))
    /\ UNCHANGED <<pc, cp>>

NextAuth ==
    \/ \E other \in AuthsOver(Hosts) : StoreAppend(other)
    \/ \E files \in [{"docker", "podman", "ocipkg"} -> AuthFiles] : LoadAll(files)
    \/ LoadAllPath
    \/ LoadAllReturn
    \/ Client_new

SpecAuth == InitAuth /\ [][NextAuth]_vars

\* The entry of host h in the map a, <<>> if there is none.
EntryOf(a, h) == IF h \in DOMAIN a THEN <<a[h]>> ELSE <<>>

\* The auth decodes to exactly two colon-separated parts.
TwoParts(auth) ==
    /\ Base64Decode(auth).ok
    /\ \E k \in 1..Len(Base64Decode(auth).val) :
          /\ Base64Decode(auth).val[k] = 58
          /\ \A j \in 1..Len(Base64Decode(auth).val) :
                Base64Decode(auth).val[j] = 58 => j = k

\* The entry of h that wins among the files: the one of the last file, in
\* the order Docker, Podman, ocipkg, that was read and holds a two-part
\* entry of h.
RECURSIVE Winner(_, _, _)
Winner(files, h, k) ==
    IF k = 0 THEN <<>>
    ELSE LET file == files[AuthPaths[k]]
         IN  IF file.ok /\ h \in DOMAIN file.loaded /\ TwoParts(file.loaded[h])
             THEN <<file.loaded[h]>>
             ELSE Winner(files, h, k - 1)

\* C15: credential merge is after-wins over valid entries only.  After
\* store.append(other) the store holds other's entry for every host whose
\* entry in other decodes to exactly two colon-separated parts, and its
\* previous entry (or none) for every other host.  load_all merges Docker,
\* Podman, ocipkg in this order: it returns, for every host, the entry of
\* the last file holding a valid one (so a valid ocipkg entry wins), and
\* fails only when no file could be read.
C15_AfterWinsValidOnly ==
    /\ ret.op = "append" =>
          \A h \in Hosts :
             EntryOf(cp.store, h) =
                IF h \in DOMAIN cp.other /\ TwoParts(cp.other[h])
                THEN <<cp.other[h]>> ELSE EntryOf(cp.before, h)
    /\ ret.op = "load_all" =>
          /\ ret.ok <=> \E p \in DOMAIN cp.files : cp.files[p].ok
          /\ ret.ok => \A h \in Hosts :
                          EntryOf(ret.val, h) = Winner(cp.files, h, 3)

\* C15 witness: an append whose other held a valid entry of h1, taken over
\* an existing one, and an invalid entry of h2, which kept its old value.
C15_Witness ==
    /\ ret.op = "append"
    /\ DOMAIN cp.other = Hosts /\ DOMAIN cp.before = Hosts
    /\ TwoParts(cp.other["h1"]) /\ cp.other["h1"] # cp.before["h1"]
    /\ Base64Decode(cp.other["h2"]).ok /\ ~TwoParts(cp.other["h2"])
    /\ cp.store["h2"] = cp.before["h2"] /\ cp.store["h1"] = cp.other["h1"]


(***************************************************************************)
(* The process-wide project directory (local/mod.rs).  SpecDirs: threads   *)
(* call set_project_dirs, data_dir and image_dir in any interleaving;      *)
(* cp.once is the OnceLock PROJECT_DIRS.                                   *)
(***************************************************************************)
NThreads == 2    \* threads of the process
MaxCalls == 2    \* calls a thread makes

DirsOnly == UNCHANGED <<fs, builder, img, pc, hist, nm, cl, reg>>

Threads == 1..NThreads

\* ProjectDirs values: the one ProjectDirs::from("", "ocipkg", "ocipkg")
\* gives, and two a caller sets.
DefaultDirs == "default"
CallerDirs == {"d1", "d2"}

\* ProjectDirs::data_dir, as a path
ProjectDirs_data_dir(p) == <<p, "/", "data">>

\* image_dir: dir.join("{hostname}__{port}/{name}/__{reference}"), without
\* "__{port}" for a name that has no port
image_dir(dir, name) ==
    dir \o <<"/">> \o name.hostname
        \o (IF name.port.some THEN <<"_", "_">> \o u16_to_string(name.port.val)
            ELSE <<>>)
        \o <<"/">> \o name.name \o <<"/", "_", "_">> \o name.reference

\* OnceLock: state is "incomplete", "running" (a thread runs the
\* initializer, the others wait) or "complete"; writes: the values written
\* into the cell, in order.
NoOnce == [state |-> "incomplete", value |-> "", writes |-> <<>>]

\* C16 mutant: set stores the value in a cell that is already initialized.
OnceLock_set_Overwrite(once, value) ==
    [once |-> [state |-> "complete", value |-> value,
               writes |-> Append(once.writes, value)],
     r    |-> IF once.state = "incomplete" THEN Ok("") ELSE Err("Failed to set project dirs")]

\* OnceLock::set: the value is stored only in an uninitialized cell
OnceLock_set(once, value) ==
    IF once.state = "incomplete"
    THEN [once |-> [state |-> "complete", value |-> value,
                    writes |-> Append(once.writes, value)],
          r    |-> Ok("")]
    ELSE [once |-> once, r |-> Err("Failed to set project dirs")]

\* A thread: at is "idle", "set", "get", "init" or "panicked"; op, arg and
\* name are the call it is in; n counts its calls.
NoThread == [at |-> "idle", op |-> "none", arg |-> "", name |-> NoName, n |-> 0]

\* returned: the results of the calls that have returned.
InitDirs ==
    /\ cp = [once |-> NoOnce, threads |-> [t \in Threads |-> NoThread],
             returned |-> {}]
    /\ pc = "idle" /\ ret = NoRet
    /\ fs = [l \in Locs |-> Absent]
    /\ builder = NoBuilder /\ img = NoImage /\ hist = NoHist
    /\ NameIdle /\ ClientIdle

Returned(t, r) ==
    [op |-> cp.threads[t].op, name |-> cp.threads[t].name, ok |-> r.ok, val |-> r.val]

\* set_project_dirs(dirs) is called by thread t
set_project_dirs(t, dirs) ==
    /\ DirsOnly
    /\ cp.threads[t].at = "idle" /\ cp.threads[t].n < MaxCalls
    /\ cp' = [cp EXCEPT !.threads[t] =
                [at |-> "set", op |-> "set_project_dirs", arg |-> dirs,
                 name |-> NoName, n |-> @.n + 1]]
    /\ UNCHANGED ret

\* set_project_dirs: PROJECT_DIRS.set(dirs).map_err(..); set waits while
\* another thread runs the initializer
ProjectDirsSet(t) ==
    /\ DirsOnly
    /\ cp.threads[t].at = "set" /\ cp.once.state # "running"
    /\ LET s == OnceLock_set(cp.once, cp.threads[t].arg)
       IN  /\ cp' = [cp EXCEPT !.once = s.once,
                               !.threads[t].at = "idle",
                               !.returned = @ \cup {Returned(t, s.r)}]
           /\ ret' = Ret("set_project_dirs", s.r)

\* data_dir() (name = NoName) or image_dir(name) is called by thread t
data_dir(t, name) ==
    /\ DirsOnly
    /\ cp.threads[t].at = "idle" /\ cp.threads[t].n < MaxCalls
    /\ cp' = [cp EXCEPT !.threads[t] =
                [at |-> "get",
                 op |-> IF name = NoName THEN "data_dir" ELSE "image_dir",
                 arg |-> "", name |-> name, n |-> @.n + 1]]
    /\ UNCHANGED ret

\* The value data_dir or image_dir returns from the ProjectDirs p.
DirResult(t, p) ==
    IF cp.threads[t].name = NoName THEN Ok(ProjectDirs_data_dir(p))
    ELSE Ok(image_dir(ProjectDirs_data_dir(p), cp.threads[t].name[1]))

\* data_dir: PROJECT_DIRS.get_or_init(..) on an initialized cell returns its
\* value; on an uninitialized one the thread starts the initializer
ProjectDirsGet(t) ==
    /\ DirsOnly
    /\ cp.threads[t].at = "get" /\ cp.once.state # "running"
    /\ IF cp.once.state = "complete"
       THEN LET r == DirResult(t, cp.once.value)
            IN  /\ cp' = [cp EXCEPT !.threads[t].at = "idle",
                                    !.returned = @ \cup {Returned(t, r)}]
                /\ ret' = Ret(cp.threads[t].op, r)
       ELSE /\ cp' = [cp EXCEPT !.once.state = "running",
                                !.threads[t].at = "init"]
            /\ UNCHANGED ret

\* data_dir: the initializer ProjectDirs::from(..).expect(".."): it gives
\* the default directories, or panics and leaves the cell uninitialized
ProjectDirsInit(t) ==
    /\ DirsOnly
    /\ cp.threads[t].at = "init"
    /\ \/ LET r == DirResult(t, DefaultDirs)
          IN  /\ cp' = [cp EXCEPT !.once = [state |-> "complete",
                                            value |-> DefaultDirs,
                                            writes |-> Append(cp.once.writes, DefaultDirs)],
                                  !.threads[t].at = "idle",
                                  !.returned = @ \cup {Returned(t, r)}]
              /\ ret' = Ret(cp.threads[t].op, r)
       \/ /\ cp' = [cp EXCEPT !.once.state = "incomplete",
                              !.threads[t].at = "panicked"]
          /\ UNCHANGED ret

DirNames == { ImageName(<<"h">>, SomePort(80), <<"a">>, <<"a">>) }

NextDirs ==
    \/ \E t \in Threads, dirs \in CallerDirs : set_project_dirs(t, dirs)
    \/ \E t \in Threads : ProjectDirsSet(t)
    \/ \E t \in Threads : data_dir(t, NoName)
    \/ \E t \in Threads, n \in DirNames : data_dir(t, Some(n))
    \/ \E t \in Threads : ProjectDirsGet(t)
    \/ \E t \in Threads : ProjectDirsInit(t)

SpecDirs == InitDirs /\ [][NextDirs]_vars

\* C16: one-shot base directory.  The project directory is written at most
\* once, by the first successful set_project_dirs or the first data_dir;
\* every set_project_dirs that returned Ok is that write, and every
\* data_dir() and image_dir(name) that has returned, in any thread, was
\* computed from that one value.
C16_OneShotBaseDir ==
    /\ Len(cp.once.writes) <= 1
    /\ cp.once.state = "complete" =>
          /\ cp.once.writes = <<cp.once.value>>
    /\ \A r \in cp.returned :
          /\ r.op = "data_dir" =>
                /\ cp.once.state = "complete"
                /\ r.val = ProjectDirs_data_dir(cp.once.writes[1])
          /\ r.op = "image_dir" =>
                /\ cp.once.state = "complete"
                /\ r.val = image_dir(ProjectDirs_data_dir(cp.once.writes[1]), r.name[1])
          /\ (r.op = "set_project_dirs" /\ r.ok) => Len(cp.once.writes) = 1

\* C16 witness: data_dir resolved the default directory, then a
\* set_project_dirs in another thread failed, then image_dir of a name with
\* a port returned a path under the default directory.
C16_Witness ==
    /\ cp.once.state = "complete" /\ cp.once.value = DefaultDirs
    /\ \E r \in cp.returned : r.op = "set_project_dirs" /\ ~r.ok
    /\ \E r \in cp.returned : r.op = "data_dir"
    /\ \E r \in cp.returned :
          /\ r.op = "image_dir" /\ r.name[1].port.some
          /\ r.val = image_dir(ProjectDirs_data_dir(DefaultDirs), r.name[1])


(***************************************************************************)
(* RunnableBuilder (image/runnable.rs).  SpecRunnable: a RunnableBuilder   *)
(* over an OciArchiveBuilder or an OciDirBuilder; while the builder lives  *)
(* cp holds its fields, and build hands them over to the layout's build.   *)
(***************************************************************************)
MaxExecutables == 2    \* append_executable calls on one builder

\* A path given to append_executable: whether it is a file, its file name,
\* its bytes, and what parse_elf_header makes of them.
NoFile == [is_file |-> FALSE, filename |-> "", data |-> <<>>,
           elf |-> Err("File does not exist")]
ExecFile(filename, data, elf) ==
    [is_file |-> TRUE, filename |-> filename, data |-> data, elf |-> elf]
ExecPaths ==
    { NoFile,
      ExecFile("a", <<0>>, Ok([arch |-> "amd64", os |-> "linux"])),
      ExecFile("b", <<1>>, Ok([arch |-> "arm64", os |-> "linux"])),
      ExecFile("b", <<0, 1>>, Ok([arch |-> "amd64", os |-> "linux"])),
      ExecFile("c", <<1>>, Err("Cannot parse as an ELF file")) }

NameByte(filename) == CASE filename = "a" -> 97 [] filename = "b" -> 98 [] OTHER -> 99

\* The tar archive of the one file: its name, then its bytes.
TarBytes(file) == <<NameByte(file.filename)>> \o file.data

\* serde_json::to_string(&cfg) of the image configuration
RECURSIVE EntrypointBytes(_)
EntrypointBytes(entrypoint) ==
    IF entrypoint = <<>> THEN <<>>
    ELSE <<47, NameByte(entrypoint[1][2])>> \o EntrypointBytes(Tail(entrypoint))
ConfigJson(arch, os, entrypoint) ==
    <<(IF arch = <<"amd64">> THEN 1 ELSE 2), 0>> \o EntrypointBytes(entrypoint)

\* RunnableBuilder::new: the fields of a new builder; nCalls counts the
\* append_executable calls, before is the state at the last one.
NoRunnable == [entrypoint |-> <<>>, layers |-> <<>>, arch |-> <<>>, os |-> <<>>,
               nCalls |-> 0, before |-> <<>>]

InitRunnable ==
    /\ fs = [src |-> Absent, dst |-> Absent]
    /\ builder = NoBuilder /\ img = NoImage /\ pc = "idle"
    /\ ret = NoRet /\ cp = NoRunnable /\ hist = NoHist
    /\ NameIdle /\ ClientIdle

\* The fields of the builder and the layout under it.
RunnableState ==
    [entrypoint |-> cp.entrypoint, layers |-> cp.layers, arch |-> cp.arch,
     os |-> cp.os, fs |-> fs, builder |-> builder]

\* C17 mutant: a second executable is taken.
append_executable_check_Many(path, layers) ==
    IF ~path.is_file THEN Err("File does not exist") ELSE Ok("")

\* append_executable: the two tests it starts with
append_executable_check(path, layers) ==
    IF ~path.is_file THEN Err("File does not exist")
    ELSE IF layers # <<>> THEN Err("Only one executable is allowed")
    ELSE Ok("")

\* RunnableBuilder::append_executable
append_executable(path) ==
    /\ LayoutOnly
    /\ pc = "idle" /\ builder.kind # "none"
    /\ cp.nCalls < MaxExecutables
    /\ LET check == append_executable_check(path, cp.layers)
           called == [cp EXCEPT !.nCalls = @ + 1, !.before = <<RunnableState>>]
           parsed == [called EXCEPT !.arch = <<path.elf.val.arch>>,
                                    !.os = <<path.elf.val.os>>]
           r == add_blob(fs, builder, TarBytes(path))
       IN  \/ /\ ~check.ok
              /\ ret' = Ret("append_executable", check)
              /\ cp' = called
              /\ UNCHANGED <<fs, hist>>
           \/ /\ check.ok
              /\ ret' = Ret("append_executable",
                            IF path.elf.ok THEN Err("UnknownIo") ELSE path.elf)
              /\ cp' = called
              /\ UNCHANGED <<fs, hist>>
           \/ /\ check.ok /\ path.elf.ok
              /\ ret' = Ret("append_executable", Err("UnknownIo"))
              /\ cp' = parsed
              /\ UNCHANGED <<fs, hist>>
           \/ /\ check.ok /\ path.elf.ok
              /\ fs' = r.fs
              /\ hist' = [hist EXCEPT !.added = @ \cup {Added(TarBytes(path), r.ret)}]
              /\ cp' = [parsed EXCEPT
                          !.layers = Append(@, Desc(r.ret.val.digest, r.ret.val.size)),
                          !.entrypoint = Append(@, <<"/", path.filename>>)]
              /\ ret' = Ret("append_executable", Ok(""))
    /\ UNCHANGED <<builder, img, pc>>

\* RunnableBuilder::build returns early: the builder is dropped, and the
\* layout builder in it
RunnableDropped(r) ==
    /\ \E rmOk \in BOOLEAN :
         /\ fs' = DropBuilder(fs, builder, rmOk)
         /\ hist' = Dropped(hist, builder, rmOk)
    /\ builder' = NoBuilder
    /\ ret' = Ret("build", r)
    /\ pc' = "idle"
    /\ cp' = NoCp
    /\ UNCHANGED img

\* RunnableBuilder::build, up to the call of self.layout.build(manifest)
RunnableBuilder_build ==
    /\ LayoutOnly
    /\ pc = "idle" /\ builder.kind # "none"
    /\ IF ~(cp.layers # <<>> /\ cp.entrypoint # <<>>)
       THEN RunnableDropped(Err("No executable provided"))
       ELSE LET json == ConfigJson(cp.arch, cp.os, cp.entrypoint)
                r == add_blob(fs, builder, json)
            IN  \/ RunnableDropped(Err("UnknownIo"))
                \/ /\ fs' = r.fs
                   /\ cp' = [NoCp EXCEPT !.manifest =
                               [config |-> Desc(r.ret.val.digest, r.ret.val.size),
                                layers |-> cp.layers]]
                   /\ pc' = "build_blob"
                   /\ hist' = [hist EXCEPT !.log = Append(@, BuildEvent)]
                   /\ ret' = NoRet
                   /\ UNCHANGED <<builder, img>>

RunnableNames == { ImageName(<<"h">>, SomePort(80), <<"a">>, <<"a">>) }

NextRunnable ==
    \/ \E n \in RunnableNames : OciArchiveBuilder_new("dst", Some(n))
    \/ \E n \in RunnableNames : OciDirBuilder_new("dst", Some(n))
    \/ \E path \in ExecPaths : append_executable(path)
    \/ RunnableBuilder_build
    \/ BuildBlob
    \/ BuildLayout
    \/ BuildIndexJson
    \/ BuildFinish

SpecRunnable == InitRunnable /\ [][NextRunnable]_vars

\* The RunnableBuilder is alive: made and not yet consumed by build.
RunnableAlive == pc = "idle" /\ builder.kind # "none"

\* C17: at most one executable per runnable image.  A live RunnableBuilder
\* holds at most one layer and at most one entrypoint; an append_executable
\* made when a layer was present returned an error and left layers,
\* entrypoint, architecture, OS and the layout under the builder as they
\* were; a build returns Ok only if an executable had been appended, and
\* its manifest then has exactly one layer.
C17_OneExecutable ==
    /\ RunnableAlive =>
          /\ Len(cp.layers) <= 1 /\ Len(cp.entrypoint) <= 1
          /\ (ret.op = "append_executable" /\ cp.before[1].layers # <<>>) =>
                /\ ~ret.ok
                /\ RunnableState = cp.before[1]
    /\ (ret.op = "build" /\ hist.added = {}) => ~ret.ok
    /\ (ret.op = "build" /\ ret.ok) =>
          Len(hist.built[1].manifest.layers) = 1

\* C17 witness: a second append_executable, of a good executable, failed on
\* a builder that held the layer and entrypoint of the first.
C17_Witness ==
    /\ RunnableAlive /\ ret.op = "append_executable" /\ ~ret.ok
    /\ cp.nCalls = 2 /\ Len(cp.before[1].layers) = 1
    /\ cp.entrypoint = << <<"/", "a">> >> /\ cp.arch = <<"amd64">>
    /\ ret.val = "Only one executable is allowed"

\* C17 witness of the build part: build failed on a builder that no
\* executable had been appended to.
C17_WitnessBuild ==
    ret.op = "build" /\ ~ret.ok /\ ret.val = "No executable provided"


(***************************************************************************)
(* The OciArchive reader with its file cursor (image/oci_archive.rs).      *)
(* SpecReader: fs["src"] is a tar file, img the OciArchive opened on it;   *)
(* cp.cursor counts the entries the file position is past.  A scan leaves  *)
(* the cursor after the entry it stopped at, or at the end of the file.    *)
(***************************************************************************)
ReaderOnly == UNCHANGED <<fs, builder, img, pc, hist, nm, cl, reg>>

\* C21 mutant: the scan goes on from where the last one stopped.
OciArchive_rewind_Stay(cursor) == cursor

\* OciArchive::rewind: f.rewind(), and a new tar::Archive on the file
OciArchive_rewind(cursor) == 0

\* OciArchive::get_entries, and the loop over them looking for the path p:
\* at is the entry found (0: none), cursor the position afterwards.
ScanFor(es, cursor, p) ==
    LET i == FirstEntry(es, p, OciArchive_rewind(cursor) + 1)
    IN  [at |-> i, cursor |-> IF i = 0 THEN Len(es) ELSE i]

\* OciArchive::get_index, from a file position
OciArchive_get_index_from(es, cursor) ==
    LET s == ScanFor(es, cursor, IndexPath)
    IN  [r |-> IF s.at = 0 THEN Err("MissingIndex") ELSE Ok(es[s.at].data),
         cursor |-> s.cursor]

\* OciArchive::get_blob, from a file position
OciArchive_get_blob_from(es, cursor, digest) ==
    LET s == ScanFor(es, cursor, Digest_as_path(digest))
    IN  [r |-> IF s.at = 0 THEN Err("MissingBlob") ELSE Ok(es[s.at].data),
         cursor |-> s.cursor]

\* OciArchive::get_name, from a file position
OciArchive_get_name_from(es, cursor) ==
    LET index == OciArchive_get_index_from(es, cursor)
    IN  [r |-> IF ~index.r.ok THEN index.r ELSE get_name_from_index(index.r.val),
         cursor |-> index.cursor]

\* OciArchive::get_manifest, from a file position
OciArchive_get_manifest_from(es, cursor) ==
    LET index == OciArchive_get_index_from(es, cursor)
    IN  IF ~index.r.ok THEN index
        ELSE IF index.r.val.manifests = <<>>
        THEN [r |-> Err("NoManifest"), cursor |-> index.cursor]
        ELSE LET desc == index.r.val.manifests[1]
                 blob == OciArchive_get_blob_from(es, index.cursor, desc.digest)
             IN  [r |-> IF ~blob.r.ok THEN blob.r ELSE from_slice(blob.r.val),
                  cursor |-> blob.cursor]

\* The archives read: those of the source layouts, and each of them with a
\* second entry for the blob <<0>> and a second index.json at its end.
ReaderShapes ==
    { <<[config |-> DescOf(<<1>>), layers |-> <<DescOf(<<0>>)>>], s, x>> :
        s \in StoreKinds, x \in IndexKinds }
ReaderArchives ==
    { TarOf(SrcEntries(t[1], t[2], t[3])) : t \in ReaderShapes }
    \cup { TarOf(SrcEntries(t[1], t[2], t[3])
                 \o <<Entry(Digest_as_path(from_buf_sha256(<<0>>)), <<0>>),
                      Entry(IndexPath, SrcIndex(EmptyManifest, "one"))>>) :
             t \in ReaderShapes }
    \cup { TarOf(<<>>) }

\* cursor: the file position; digest: the argument of the last get_blob;
\* previous: the result of the call before the last, and the position it
\* left the file at.
NoReader == [cursor |-> 0, digest |-> from_buf_sha256(<<>>),
             previous |-> NoRet, left |-> 0]

InitReader ==
    /\ fs \in { [src |-> a, dst |-> Absent] : a \in ReaderArchives }
    /\ img = Image("oci-archive", "src")
    /\ cp = NoReader
    /\ pc = "idle" /\ ret = NoRet
    /\ builder = NoBuilder /\ hist = NoHist
    /\ NameIdle /\ ClientIdle

Read(op, digest, res) ==
    /\ ReaderOnly
    /\ ret' = Ret(op, res.r)
    /\ cp' = [cursor |-> res.cursor, digest |-> digest,
              previous |-> ret, left |-> cp.cursor]

ReaderGetName ==
    Read("get_name", cp.digest, OciArchive_get_name_from(fs["src"].entries, cp.cursor))

ReaderGetManifest ==
    Read("get_manifest", cp.digest,
         OciArchive_get_manifest_from(fs["src"].entries, cp.cursor))

ReaderGetBlob(digest) ==
    Read("get_blob", digest,
         OciArchive_get_blob_from(fs["src"].entries, cp.cursor, digest))

NextReader ==
    \/ ReaderGetName
    \/ ReaderGetManifest
    \/ \E d \in Digests : ReaderGetBlob(d)

SpecReader == InitReader /\ [][NextReader]_vars

\* The entries of the archive whose path is that of the digest asked for.
BlobHits ==
    { i \in 1..Len(fs["src"].entries) :
        fs["src"].entries[i].path = Digest_as_path(cp.digest) }

\* C21: reader operations on OciArchive are order-independent.  Whatever
\* calls came before, and wherever they left the file, get_name and
\* get_manifest return what the archive alone determines, and get_blob(d)
\* returns the bytes of the first entry at blobs/<alg>/<enc>, or an error
\* when the archive has no such entry.
C21_ReaderOrderIndependent ==
    /\ ret.op = "get_name" => ret = Ret("get_name", OciArchive_get_name(fs, "src"))
    /\ ret.op = "get_manifest" =>
          ret = Ret("get_manifest", OciArchive_get_manifest(fs, "src"))
    /\ ret.op = "get_blob" =>
          IF BlobHits = {} THEN ~ret.ok
          ELSE /\ ret.ok
               /\ \E i \in BlobHits :
                     /\ \A j \in BlobHits : i <= j
                     /\ ret.val = fs["src"].entries[i].data

\* C21 witness: a get_blob found the first of two entries of its digest,
\* which is not the last entry, after a get_blob that failed with a missing
\* blob and left the file at its end.
C21_Witness ==
    /\ ret.op = "get_blob" /\ ret.ok /\ Cardinality(BlobHits) = 2
    /\ \E i, j \in BlobHits :
          i < j /\ fs["src"].entries[i].data # fs["src"].entries[j].data
                /\ ret.val = fs["src"].entries[i].data
    /\ cp.previous.op = "get_blob" /\ ~cp.previous.ok
    /\ cp.left = Len(fs["src"].entries)


(***************************************************************************)
(* OciArtifactBuilder over a local layout builder (image/oci_artifact.rs). *)
(* SpecArtifact: an OciDirBuilder or OciArchiveBuilder is made, handed to  *)
(* OciArtifactBuilder::new, and config, layers and annotations are added;  *)
(* cp holds the builder's manifest and a record of the calls made.         *)
(***************************************************************************)
MaxArtifactCalls == 3    \* add_config / add_layer / add_annotation calls

\* manifest: the in-memory manifest (annotations kept beside it); calls:
\* every add_blob the builder made, as [call, ret]; before: the manifest
\* when the last call was made.
NoArtifact ==
    [alive |-> FALSE, manifest |-> EmptyManifest, annotations |-> {},
     calls |-> <<>>, before |-> EmptyManifest, n |-> 0]

InitArtifact ==
    /\ fs = [src |-> Absent, dst |-> Absent]
    /\ builder = NoBuilder /\ img = NoImage /\ pc = "idle"
    /\ ret = NoRet /\ cp = NoArtifact /\ hist = NoHist
    /\ NameIdle /\ ClientIdle

\* The OciArtifactBuilder is alive: made and not yet consumed by build.
ArtifactAlive == pc = "idle" /\ builder.kind # "none" /\ cp.alive

\* self.layout.add_blob(blob): the files after it and what it returned
LayoutAddBlob(blob, ioOk) ==
    IF ioOk THEN add_blob(fs, builder, blob)
    ELSE [fs |-> fs, ret |-> Err("UnknownIo")]

DescOfAdded(r) == Desc(r.val.digest, r.val.size)

\* add_config: "self.manifest.set_config(config.clone())" after add_blob(..)?
set_config(manifest, r) ==
    IF r.ok THEN [manifest EXCEPT !.config = DescOfAdded(r)] ELSE manifest

\* C22 mutant: the new layer goes in front of the others.
push_layer_Front(manifest, r) ==
    IF r.ok THEN [manifest EXCEPT !.layers = <<DescOfAdded(r)>> \o @] ELSE manifest

\* add_layer: "self.manifest.layers_mut().push(layer.clone())" after add_blob(..)?
push_layer(manifest, r) ==
    IF r.ok THEN [manifest EXCEPT !.layers = Append(@, DescOfAdded(r))] ELSE manifest

Called(call, r) == [call |-> call, ret |-> r]

\* OciArtifactBuilder::new(layout, artifact_type): add_empty_json, then the
\* manifest with the empty config and no layers; on an error the layout
\* builder is dropped with the call
OciArtifactNew ==
    /\ LayoutOnly
    /\ pc = "idle" /\ builder.kind # "none" /\ ~cp.alive /\ cp.calls = <<>>
    /\ \E ioOk \in BOOLEAN :
         LET a == LayoutAddBlob(EmptyJson, ioOk)
         IN  /\ ret' = Ret("artifact_new", a.ret)
             /\ cp' = [cp EXCEPT !.alive = a.ret.ok,
                                 !.manifest = set_config(
                                     [config |-> DescOf(<<>>), layers |-> <<>>], a.ret),
                                 !.calls = Append(@, Called("new", a.ret))]
             /\ IF a.ret.ok
                THEN fs' = a.fs /\ UNCHANGED <<builder, hist>>
                ELSE /\ \E rmOk \in BOOLEAN :
                          /\ fs' = DropBuilder(a.fs, builder, rmOk)
                          /\ hist' = Dropped(hist, builder, rmOk)
                     /\ builder' = NoBuilder
    /\ UNCHANGED <<img, pc>>

ArtifactCall(call, blob, update(_, _)) ==
    /\ LayoutOnly
    /\ ArtifactAlive /\ cp.n < MaxArtifactCalls
    /\ \E ioOk \in BOOLEAN :
         LET a == LayoutAddBlob(blob, ioOk)
         IN  /\ fs' = a.fs
             /\ ret' = Ret(call, IF a.ret.ok THEN Ok(DescOfAdded(a.ret)) ELSE a.ret)
             /\ cp' = [cp EXCEPT !.manifest = update(cp.manifest, a.ret),
                                 !.before = cp.manifest,
                                 !.calls = Append(@, Called(call, a.ret)),
                                 !.n = @ + 1]
    /\ UNCHANGED <<builder, img, pc, hist>>

\* OciArtifactBuilder::add_config
OciArtifactAddConfig(blob) == ArtifactCall("add_config", blob, set_config)

\* OciArtifactBuilder::add_layer
OciArtifactAddLayer(blob) == ArtifactCall("add_layer", blob, push_layer)

\* OciArtifactBuilder::add_annotation: insert into the manifest's annotations
OciArtifactAddAnnotation(key, value) ==
    /\ LayoutOnly
    /\ ArtifactAlive /\ cp.n < MaxArtifactCalls
    /\ cp' = [cp EXCEPT !.annotations =
                           { kv \in @ : kv[1] # key } \cup {<<key, value>>},
                        !.before = cp.manifest,
                        !.n = @ + 1]
    /\ ret' = Ret("add_annotation", Ok(""))
    /\ UNCHANGED <<fs, builder, img, pc, hist>>

\* OciArtifactBuilder::build: self.layout.build(self.manifest)
OciArtifactBuild ==
    /\ LayoutOnly
    /\ ArtifactAlive
    /\ pc' = "build_blob"
    /\ cp' = [NoCp EXCEPT !.manifest = cp.manifest]
    /\ hist' = [hist EXCEPT !.log = Append(@, BuildEvent)]
    /\ ret' = NoRet
    /\ UNCHANGED <<fs, builder, img>>

ArtifactNames == { ImageName(<<"h">>, SomePort(80), <<"a">>, <<"a">>) }

NextArtifact ==
    \/ \E n \in ArtifactNames : OciArchiveBuilder_new("dst", Some(n))
    \/ \E n \in ArtifactNames : OciDirBuilder_new("dst", Some(n))
    \/ OciArtifactNew
    \/ \E b \in SrcBlobs : OciArtifactAddConfig(b)
    \/ \E b \in SrcBlobs : OciArtifactAddLayer(b)
    \/ OciArtifactAddAnnotation("title", "t")
    \/ OciArtifactBuild
    \/ BuildBlob
    \/ BuildLayout
    \/ BuildIndexJson
    \/ BuildFinish

SpecArtifact == InitArtifact /\ [][NextArtifact]_vars

\* The descriptors the successful calls named by the set which returned,
\* in call order.
RECURSIVE ReturnedBy(_, _)
ReturnedBy(calls, which) ==
    IF calls = <<>> THEN <<>>
    ELSE (IF calls[1].call \in which /\ calls[1].ret.ok
          THEN <<Desc(calls[1].ret.val.digest, calls[1].ret.val.size)>> ELSE <<>>)
         \o ReturnedBy(Tail(calls), which)

\* The blob a descriptor refers to is in the layout under the builder.
InLayout(desc) ==
    LET blob == get_blob(fs, Image(builder.kind, builder.path), desc.digest)
    IN  blob.ok /\ Len(blob.val) = desc.size

\* C22: OciArtifactBuilder keeps its manifest consistent with the layout.
\* While the builder lives, its manifest has one config descriptor, the
\* one returned for the empty JSON by new until an add_config succeeds and
\* then that of the most recent successful add_config; its layers are the
\* descriptors of the successful add_layer calls in call order; every
\* descriptor is one add_blob returned and its blob is in the layout (the
\* build precondition); and a failed add_config or add_layer left the
\* manifest as it was.
C22_ManifestConsistent ==
    ArtifactAlive =>
        LET configs == ReturnedBy(cp.calls, {"new", "add_config"})
            m       == cp.manifest
        IN  /\ configs # <<>> /\ m.config = configs[Len(configs)]
            /\ configs[1] = DescOf(EmptyJson)
            /\ m.layers = ReturnedBy(cp.calls, {"add_layer"})
            /\ InLayout(m.config)
            /\ \A i \in DOMAIN m.layers : InLayout(m.layers[i])
            /\ (ret.op \in {"add_config", "add_layer"} /\ ~ret.ok) => m = cp.before
            /\ ret.op = "add_annotation" => m = cp.before

\* C22 witness: two different layers were added in turn, then an add_config
\* failed on a builder that still holds the empty-JSON config.
C22_Witness ==
    /\ ArtifactAlive /\ ret.op = "add_config" /\ ~ret.ok
    /\ Len(cp.manifest.layers) = 2
    /\ cp.manifest.layers[1] # cp.manifest.layers[2]
    /\ cp.manifest.config = DescOf(EmptyJson)


(***************************************************************************)
(* The local image store (local/mod.rs).  SpecLocal: the images of a set   *)
(* of names have been unpacked under image_dir(name); cp.tree is the       *)
(* directory tree under data_dir(), a set of [path, is_dir].               *)
(***************************************************************************)
LocalOnly == UNCHANGED <<fs, builder, img, pc, hist, nm, cl, reg>>

LocalDataDir == ProjectDirs_data_dir(DefaultDirs)

\* Valid image names: with a port, with a nested name, with a tag that
\* holds "__", and with a digest as the reference.
LocalNames ==
    { ImageName(<<"h">>, SomePort(80), <<"a">>, <<"a">>),
      ImageName(<<"h">>, NoPort, <<"a">>, <<"a">>),
      ImageName(<<"h">>, NoPort, <<"a", "/", "a">>, <<"_", "_", "a">>),
      ImageName(<<"h">>, NoPort, <<"a">>, <<"a", ":", "A">>) }

\* What an unpacked image may hold beside its .oci-dir: directories and
\* files of any name.
UnpackedDirs  == { <<"l", "i", "b">>, <<"_", "_", "x">> }
UnpackedFiles == { <<"_", "_", "f">> }

Node(path, is_dir) == [path |-> path, is_dir |-> is_dir]

\* The directories from the first component of path down to path itself.
Ancestors(path) ==
    LET cs == components(path)
    IN  { Node(Join(SubSeq(cs, 1, k), <<"/">>), TRUE) : k \in 1..Len(cs) }

\* The tree after the images named in S were unpacked, each holding the
\* directories ds and the files fls.
Materialized(S, ds, fls) ==
    Ancestors(LocalDataDir)
    \cup UNION { Ancestors(image_dir(LocalDataDir, n)) : n \in S }
    \cup { Node(image_dir(LocalDataDir, n) \o <<"/">> \o d, TRUE) :
             n \in S, d \in ds \cup {<<".", "o", "c", "i", "-", "d", "i", "r">>} }
    \cup { Node(image_dir(LocalDataDir, n) \o <<"/">> \o f, FALSE) : n \in S, f \in fls }

\* path.strip_prefix(data_dir) and its components
RelComponents(path) ==
    LET cs == components(path)
        k  == Len(components(LocalDataDir))
    IN  SubSeq(cs, k + 1, Len(cs))

\* path_to_image_name; a failed assert! or expect is the result "panic"
path_to_image_name(path) ==
    LET cs == RelComponents(path)
        n  == Len(cs)
    IN  IF n < 3 THEN Err("panic")
        ELSE LET name      == Name_new(Join(SubSeq(cs, 2, n - 1), <<"/">>))
                 reference == Reference_new(Suffix(cs[n], 3))
                 iter      == Split(cs[1], <<"_", "_">>)
                 port      == IF Len(iter) >= 2 THEN parse_u16(iter[2]) ELSE Ok(0)
             IN  IF ~name.ok THEN name
                 ELSE IF ~reference.ok THEN reference
                 ELSE IF ~port.ok THEN Err("panic")
                 ELSE Ok(ImageName(iter[1],
                                   IF Len(iter) >= 2 THEN SomePort(port.val) ELSE NoPort,
                                   name.val, reference.val))

\* get_image_list: the directories of the walk whose name starts with "__"
ImageDirs(tree) ==
    { e \in tree : e.is_dir /\ LET cs == components(e.path)
                               IN  StartsWithAt(cs[Len(cs)], <<"_", "_">>, 1) }

\* get_image_list: an error of path_to_image_name ends the walk; otherwise
\* one image per directory found (the walk's order is not modelled: the
\* result is the set of [path, name])
get_image_list(tree) ==
    IF Node(LocalDataDir, TRUE) \notin tree THEN Ok({})
    ELSE LET found == ImageDirs(tree)
         IN  IF \E e \in found : ~path_to_image_name(e.path).ok
             THEN LET e == CHOOSE e \in found : ~path_to_image_name(e.path).ok
                  IN  path_to_image_name(e.path)
             ELSE Ok({ [path |-> e.path, name |-> path_to_image_name(e.path).val] :
                         e \in found })

NoLocal == [S |-> {}, tree |-> {}, n |-> NoName]

InitLocal ==
    /\ \E S \in SUBSET LocalNames, ds \in SUBSET UnpackedDirs, fls \in SUBSET UnpackedFiles :
          cp = [S |-> S, tree |-> Materialized(S, ds, fls), n |-> NoName]
    /\ fs = [src |-> Absent, dst |-> Absent]
    /\ builder = NoBuilder /\ img = NoImage /\ pc = "idle"
    /\ ret = NoRet /\ hist = NoHist
    /\ NameIdle /\ ClientIdle

\* image_dir(name), in a process that has resolved the default directories
ImageDir(name) ==
    /\ LocalOnly
    /\ cp' = [cp EXCEPT !.n = Some(name)]
    /\ ret' = Ret("image_dir", Ok(image_dir(LocalDataDir, name)))

\* get_image_list()
GetImageList ==
    /\ LocalOnly
    /\ cp' = [cp EXCEPT !.n = NoName]
    /\ ret' = Ret("get_image_list", get_image_list(cp.tree))

NextLocal ==
    \/ \E n \in LocalNames : ImageDir(n)
    \/ GetImageList

SpecLocal == InitLocal /\ [][NextLocal]_vars

\* C23 as stated: local image directory uses the path encoding.  For every
\* valid ImageName n, including names whose reference is a digest,
\* image_dir(n) is data_dir() joined with n.as_path(), in which the ':' of a
\* digest reference is replaced by "__".
C23_ImageDirIsAsPath ==
    ret.op = "image_dir" =>
        ret.val = LocalDataDir \o <<"/">> \o as_path(cp.n[1])

\* C24 as stated: get_image_list inverts image_dir.  For any set S of valid
\* image names whose images were materialized under image_dir(n), each
\* directory holding unpacked files and sub-directories of any name and the
\* .oci-dir, get_image_list() succeeds and returns exactly the names in S,
\* each once.
C24_ImageListInvertsImageDir ==
    ret.op = "get_image_list" =>
        /\ ret.ok
        /\ { e.name : e \in ret.val } = cp.S
        /\ Cardinality(ret.val) = Cardinality(cp.S)


(***************************************************************************)
(* The ocipkg artifact builder and Artifact::files (image/artifact.rs,     *)
(* image/config.rs).  SpecFiles: a Builder over an OciArchiveBuilder at    *)
(* "dst"; cp.config is its Config (the HashMap from layer digest to file   *)
(* names, a function), cp.manifest the manifest of its OciArtifactBuilder. *)
(* A HashMap is iterated in an order the program does not control: any     *)
(* order of its keys.                                                      *)
(***************************************************************************)
MaxAppendFiles == 2    \* append_files calls on one Builder
MaxPaths == 2          \* paths given to one append_files call

FilesOnly == UNCHANGED <<pc, hist, nm, cl, reg>>

\* The files on disk that are given to append_files.
SourceFiles ==
    { NoFile,
      ExecFile("a", <<0>>, Err("")),
      ExecFile("b", <<1>>, Err("")) }

\* The gzipped tar archive of the files ps: for each its name, the length
\* of its bytes, and its bytes.
LayerTarGz(ps) ==
    Flatten([i \in 1..Len(ps) |->
               <<NameByte(ps[i].filename), Len(ps[i].data)>> \o ps[i].data])

\* The orders in which the keys S of a HashMap may be iterated.
IterationOrders(S) ==
    { o \in [1..Cardinality(S) -> S] : \A i, j \in 1..Cardinality(S) : o[i] = o[j] => i = j }

ByteName(b) == CASE b = 97 -> "a" [] b = 98 -> "b" [] OTHER -> "c"

\* Config::to_json: the entries of the map in the order it is iterated;
\* for each the digest and the file names
Config_to_json(layers, order) ==
    Flatten([i \in 1..Len(order) |->
               <<Len(order[i].encoded)>> \o order[i].encoded
                  \o <<Len(layers[order[i]])>>
                  \o [k \in 1..Len(layers[order[i]]) |-> NameByte(layers[order[i]][k])]])

\* serde_json::from_slice of a Config, from offset o: a later entry of the
\* same key replaces an earlier one
RECURSIVE Config_from_slice(_, _)
Config_from_slice(b, o) ==
    IF o > Len(b) THEN <<>>
    ELSE LET n      == b[o]
             digest == [algorithm |-> "sha256", encoded |-> SubSeq(b, o + 1, o + n)]
             k      == b[o + n + 1]
             paths  == [i \in 1..k |-> ByteName(b[o + n + 1 + i])]
         IN  Config_from_slice(b, o + n + 2 + k) @@ (digest :> paths)

\* Config::add_layer: "self.layers.insert(digest, paths)"
Config_add_layer(layers, digest, paths) ==
    [d \in DOMAIN layers \cup {digest} |-> IF d = digest THEN paths ELSE layers[d]]

\* Builder::new succeeded: the archive holds the empty JSON config.
\* inserted: the file names of the successful append_files calls, in order.
InitFiles ==
    /\ fs = [src |-> Absent,
             dst |-> TarOf(<<Entry(Digest_as_path(from_buf_sha256(EmptyJson)), EmptyJson)>>)]
    /\ builder = [kind |-> "oci-archive",
                  image_name |-> Some(ImageName(<<"h">>, NoPort, <<"a">>, <<"a">>)),
                  path |-> "dst", is_finished |-> FALSE]
    /\ img = NoImage /\ pc = "idle" /\ ret = NoRet /\ hist = NoHist
    /\ cp = [config |-> <<>>,
             manifest |-> [config |-> DescOf(EmptyJson), layers |-> <<>>],
             inserted |-> <<>>, n |-> 0]
    /\ NameIdle /\ ClientIdle

\* Builder::append_files(ps)
append_files(ps) ==
    /\ FilesOnly
    /\ builder.kind # "none" /\ cp.n < MaxAppendFiles
    /\ LET names == [i \in 1..Len(ps) |-> ps[i].filename]
           a     == add_blob(fs, builder, LayerTarGz(ps))
           layer == push_layer(cp.manifest, a.ret)
       IN  \/ /\ \E i \in 1..Len(ps) : ~ps[i].is_file
              /\ ret' = Ret("append_files", Err("is not a file"))
              /\ cp' = [cp EXCEPT !.n = @ + 1]
              /\ UNCHANGED fs
           \/ /\ \A i \in 1..Len(ps) : ps[i].is_file
              /\ ret' = Ret("append_files", Err("UnknownIo"))
              /\ cp' = [cp EXCEPT !.n = @ + 1]
              /\ UNCHANGED fs
           \/ /\ \A i \in 1..Len(ps) : ps[i].is_file
              /\ fs' = a.fs
              /\ cp' = [cp EXCEPT !.manifest = layer,
                                  !.config = Config_add_layer(@, a.ret.val.digest, names),
                                  !.inserted = @ \o names,
                                  !.n = @ + 1]
              /\ ret' = Ret("append_files", Ok(""))
    /\ UNCHANGED <<builder, img>>

\* Builder::build: add_config(config.to_json()) and the build of the
\* archive (manifest blob, index.json, finish); an error at any of the
\* writes ends it, and the builder is consumed
BuilderBuild ==
    /\ FilesOnly
    /\ builder.kind # "none"
    /\ \E order \in IterationOrders(DOMAIN cp.config) :
         LET a        == add_blob(fs, builder, Config_to_json(cp.config, order))
             manifest == set_config(cp.manifest, a.ret)
             b        == add_blob(a.fs, builder, to_string(manifest))
             c        == [b.fs EXCEPT !["dst"] =
                            TarOf(Append(@.entries,
                                         Entry(IndexPath, BuildIndex(builder, manifest))))]
         IN  \/ /\ fs' \in {fs, a.fs, b.fs, c}
                /\ ret' = Ret("build", Err("UnknownIo"))
                /\ UNCHANGED img
             \/ /\ fs' = c
                /\ ret' = Ret("build", OciArchive_new(c, "dst"))
                /\ img' = Image("oci-archive", "dst")
    /\ builder' = NoBuilder
    /\ UNCHANGED cp

\* Artifact::files on the built artifact (a V1 artifact):
\* get_ocipkg_config, then "config.layers().values().flatten()"
ArtifactFiles ==
    /\ FilesOnly
    /\ img.kind # "none"
    /\ LET manifest == get_manifest(fs, img)
           blob     == get_blob(fs, img, manifest.val.config.digest)
           layers   == Config_from_slice(blob.val, 1)
       IN  IF ~manifest.ok THEN ret' = Ret("files", manifest)
           ELSE IF ~blob.ok THEN ret' = Ret("files", blob)
           ELSE \E order \in IterationOrders(DOMAIN layers) :
                  ret' = Ret("files",
                             Ok(Flatten([i \in 1..Len(order) |-> layers[order[i]]])))
    /\ UNCHANGED <<fs, builder, img, cp>>

NextFiles ==
    \/ \E ps \in SeqsUpTo(SourceFiles, MaxPaths) \ {<<>>} : append_files(ps)
    \/ BuilderBuild
    \/ ArtifactFiles

SpecFiles == InitFiles /\ [][NextFiles]_vars

\* C25 as stated: files() preserves insertion order.  For an ocipkg
\* artifact built by any sequence of append_files calls, files() on the
\* built artifact returns exactly the file names passed to those calls, in
\* the order they were inserted, across layers and within each layer, with
\* none lost when two layers have identical content.
C25_FilesInInsertionOrder ==
    ret.op = "files" => (ret.ok /\ ret.val = cp.inserted)

(***************************************************************************)
(* Client construction over the credential files (specification SpecAuth). *)
(***************************************************************************)
\* C26: credential loading tolerates bad or missing files.  A credential
\* file that is absent or fails to parse contributes nothing and prevents
\* neither the entries of the other files from being loaded nor a client
\* from being constructed: whatever files are unreadable, Client::new
\* returns a client, whose store holds for every host the winning entry of
\* the files that could be read.
C26_LoadToleratesBadFiles ==
    ret.op = "Client::new" =>
       /\ ret.ok
       /\ \A h \in Hosts : EntryOf(ret.val.auth, h) = Winner(cp.files, h, 3)

(***************************************************************************)
(* Two Client instances (distribution/client.rs).  SpecClients: the        *)
(* program owns two Clients and uses one at a time; cl is the Client in    *)
(* use with the log of its running operation, cp.parked holds the fields   *)
(* of the other one, cp.active says which of the two cl is.                *)
(***************************************************************************)
ClientIds == {1, 2}

\* C27 mutant: the token is a cache shared by all Clients.
InstanceToken_Global(own, inUse) == inUse

\* struct Client { .., token: Option<String> }: the token a Client holds is
\* its own field, whatever token the Client in use before it holds.
InstanceToken(own, inUse) == own

\* The fields of struct Client that differ between Clients of one repository.
Client_fields(c) == [token |-> c.token, basic |-> c.basic, nOps |-> c.nOps]

InitClients ==
    /\ cl \in { [NoClient EXCEPT !.basic = b] : b \in BOOLEAN }
    /\ cp \in { [active |-> 1, parked |-> Client_fields([NoClient EXCEPT !.basic = b])] :
                   b \in BOOLEAN }
    /\ reg = NoRegistry
    /\ fs = [src |-> Absent, dst |-> Absent]
    /\ builder = NoBuilder /\ img = NoImage /\ pc = "idle"
    /\ ret = NoRet /\ hist = NoHist /\ NameIdle

\* The program turns to its other Client, between two operations.
SwitchClient ==
    /\ cl.pc = "idle" /\ cl.result.state # "panic"
    /\ cl' = [NoClient EXCEPT !.token = InstanceToken(cp.parked.token, cl.token),
                              !.basic = cp.parked.basic,
                              !.nOps  = cp.parked.nOps]
    /\ cp' = [active |-> 3 - cp.active, parked |-> Client_fields(cl)]
    /\ UNCHANGED <<fs, builder, img, pc, ret, hist, nm, reg>>

\* Of the operations that go through call, get_tags stands for all.
NextClients ==
    \/ Client_get_tags
    \/ Client_push_manifest
    \/ CallProbe
    \/ Challenge
    \/ CallBearer
    \/ ReadBody
    \/ SwitchClient

SpecClients == InitClients /\ [][NextClients]_vars

\* The token Client i holds.
TokenOf(i) == IF cp.active = i THEN cl.token ELSE cp.parked.token

\* The token fetches of the running (or last) operation that were answered
\* with a token.
TokenFetched ==
    SelectSeq(cl.wire, LAMBDA e : e.by = "token" /\ IsOk(e.resp) /\ e.resp.json)

\* A step of the request wrapper of Client i that stores a fetched token.
FetchStep(i) ==
    /\ cp.active = i /\ cp'.active = i
    /\ cl.pc = "challenge" /\ cl.op \in WrappedOps
    /\ Len(cl'.wire) = Len(cl.wire) + 1
    /\ LET e == cl'.wire[Len(cl'.wire)]
       IN  e.by = "token" /\ IsOk(e.resp) /\ e.resp.json

\* C27: the cached token changes only from absent to present, and only by
\* a successful token fetch inside the request wrapper.  Every step that
\* changes the token of a Client starts with that token absent and is the
\* step of that Client's call that received a token from the token service;
\* so a present token is never replaced or cleared, by any operation of
\* either Client, including operations answered 401 under that token.  An
\* operation that began without a token and in which no token fetch
\* succeeded (the request succeeded unauthenticated, failed with an error
\* that is no challenge, or the token fetch failed) ends with the token
\* absent, and an operation that began with a token ends with that token.
C27_TokenSetOnceByFetch ==
    /\ [](/\ (cl.op # "" /\ cl.start # NoToken) => cl.token = cl.start
          /\ (cl.op # "" /\ cl.start = NoToken) =>
                (cl.token # NoToken <=> TokenFetched # <<>>))
    /\ [][\A i \in ClientIds :
            TokenOf(i)' # TokenOf(i) =>
               (TokenOf(i) = NoToken /\ TokenOf(i)' # NoToken /\ FetchStep(i))]_vars

\* C27 witness: a Client that fetched a token earlier has just had an
\* operation answered 401 under that token and still holds it, while the
\* other Client, which was used before, has none.
C27_Witness ==
    /\ cl.pc = "idle" /\ cl.op \in WrappedOps /\ cl.nOps = 2
    /\ cl.start # NoToken /\ cl.token = cl.start
    /\ Len(cl.wire) = 1 /\ cl.wire[1].req.auth = Bearer(cl.token)
    /\ cl.wire[1].resp.status = 401 /\ cl.result = Failed
    /\ cp.parked.token = NoToken /\ cp.parked.nOps > 0

(***************************************************************************)
(* Builders over an existing path (specification Spec).                    *)
(***************************************************************************)
\* A builder is live on the path p.
LiveOn(p) == builder.kind # "none" /\ builder.path = p

\* Some constructor of a builder is called on the path p.
NewOn(p) ==
    \/ \E n \in Names : OciDirBuilder_new(p, Some(n))
    \/ OciDirBuilder_new(p, NoName)
    \/ \E n \in Names : OciArchiveBuilder_new(p, Some(n))

\* C28: creating a builder over an existing path is rejected without side
\* effects.  OciDirBuilder::new / new_unnamed and OciArchiveBuilder::new on
\* a path that exists return an error, give no builder and leave the file
\* system as it is; and no step modifies or removes a directory or file
\* that exists while no builder is live on it, so the cleanup of a dropped
\* OciDirBuilder never removes a directory the builder did not create.
C28_NewOnExistingRejected ==
    [][\A p \in Locs :
          /\ (fs[p].kind # "absent" /\ NewOn(p)) =>
                (/\ ret'.op = "new" /\ ~ret'.ok
                 /\ builder' = NoBuilder /\ fs' = fs)
          /\ (fs[p].kind # "absent" /\ ~LiveOn(p)) =>
                (fs'[p] = fs[p] /\ ~LiveOn(p)')]_vars

\* C28 witness: a constructor was just rejected on a path that holds the
\* directory an earlier builder of this run built, which is still there.
C28_Witness ==
    /\ ret.op = "new" /\ ret.val = "ImageAlreadyExists"
    /\ hist.kind = "oci-dir" /\ hist.buildOk /\ hist.dropped
    /\ fs[hist.root].kind = "dir" /\ fs[hist.root].files # NoFiles
    /\ builder = NoBuilder

(***************************************************************************)
(* The order of the writes of build (specification Spec).                  *)
(***************************************************************************)
\* The layout at the path of image holds index.json with exactly one
\* descriptor, which points to a blob of the layout that is the JSON text
\* of manifest; in an archive the blob's entry comes before index.json.
IndexNamesWritten(image, manifest) ==
    LET index == IndexOf(fs, image)
    IN  /\ index.ok /\ Len(index.val.manifests) = 1
        /\ get_blob(fs, image, index.val.manifests[1].digest) = Ok(to_string(manifest))
        /\ image.kind = "oci-archive" =>
              LET es == get_entries(fs, image.path)
              IN  FirstEntry(es, Digest_as_path(index.val.manifests[1].digest), 1)
                     < FirstEntry(es, IndexPath, 1)

\* C29: index is emitted after what it references.  In every state of a
\* live OciDirBuilder or OciArchiveBuilder, build's intermediate states
\* included, index.json is in the layout only once build has written it, and
\* then the manifest blob its single descriptor points to is there already
\* (for an OciDirBuilder, oci-layout too).  An OciDirBuilder is marked
\* finished, so that build returns the image and the drop keeps the
\* directory, only with blob, oci-layout and index.json all written.
C29_IndexAfterManifest ==
    /\ builder.kind # "none" =>
          LET image == Image(builder.kind, builder.path)
          IN  IndexOf(fs, image).ok =>
                 /\ pc = "build_finish"
                 /\ IndexNamesWritten(image, cp.manifest)
                 /\ builder.kind = "oci-dir" =>
                       OciLayoutPath \in DOMAIN fs[builder.path].files
    /\ (hist.kind = "oci-dir" /\ hist.buildOk) =>
          /\ fs[hist.root].kind = "dir"
          /\ OciLayoutPath \in DOMAIN fs[hist.root].files
          /\ IndexNamesWritten(Image("oci-dir", hist.root), hist.built[1].manifest)

\* C29 witness: the build of an OciArchiveBuilder that holds an added blob
\* has written index.json and has not returned yet.
C29_Witness ==
    /\ pc = "build_finish" /\ builder.kind = "oci-archive"
    /\ hist.nAdds > 0 /\ Len(fs[builder.path].entries) >= 3
    /\ IndexOf(fs, Image(builder.kind, builder.path)).ok

\* C29 witness: an OciDirBuilder's build returned the image.
C29_WitnessFinished ==
    /\ hist.kind = "oci-dir" /\ hist.buildOk /\ ret.op = "build" /\ ret.ok
    /\ Cardinality(DOMAIN fs[hist.root].files) >= 4

(***************************************************************************)
(* Saving and loading the credential store (distribution/auth.rs).         *)
(* SpecSave: cp.store is a StoredAuth filled by add, cp.file the file at   *)
(* auth_path(), written by save and read by load.                          *)
(***************************************************************************)
MaxCredLen   == 1    \* bytes of a username / of a password
MaxStoreAdds == 2    \* add calls on the store

\* The bytes of usernames and passwords: "a" and ":".
CredBytes == {97, 58}
CredParts == SeqsUpTo(CredBytes, MaxCredLen)

\* STANDARD.encode of up to three bytes: one group of four symbols, padded.
EncodeGroup(b) ==
    LET sym(v) == Base64Alphabet[v + 1]
    IN  IF Len(b) = 3
        THEN LET n == b[1] * 65536 + b[2] * 256 + b[3]
             IN  <<sym(n \div 262144), sym((n \div 4096) % 64),
                   sym((n \div 64) % 64), sym(n % 64)>>
        ELSE IF Len(b) = 2
        THEN LET n == (b[1] * 256 + b[2]) * 4
             IN  <<sym(n \div 4096), sym((n \div 64) % 64), sym(n % 64), "=">>
        ELSE LET n == b[1] * 16
             IN  <<sym(n \div 64), sym(n % 64), "=", "=">>

\* STANDARD.encode
RECURSIVE Base64Encode(_)
Base64Encode(bytes) ==
    IF Len(bytes) = 0 THEN <<>>
    ELSE IF Len(bytes) <= 3 THEN EncodeGroup(bytes)
    ELSE EncodeGroup(SubSeq(bytes, 1, 3)) \o Base64Encode(SubSeq(bytes, 4, Len(bytes)))

\* Auth::new: STANDARD.encode(format!("{}:{}", username, password))
Auth_new(username, password) == Base64Encode(username \o <<58>> \o password)

\* StoredAuth::add: self.auths.insert(domain, Auth::new(username, password))
StoredAuth_add(store, domain, username, password) ==
    [h \in DOMAIN store \cup {domain} |->
        IF h = domain THEN Auth_new(username, password) ELSE store[h]]

NoSave == [store |-> DefaultAuth, file |-> Unreadable, nAdds |-> 0]

InitSave ==
    /\ cp = NoSave
    /\ pc = "idle" /\ ret = NoRet
    /\ fs = [l \in Locs |-> Absent]
    /\ builder = NoBuilder /\ img = NoImage /\ hist = NoHist
    /\ NameIdle /\ ClientIdle

\* store.add(domain, username, password)
StoreAdd(domain, username, password) ==
    /\ AuthOnly
    /\ cp.nAdds < MaxStoreAdds
    /\ cp' = [cp EXCEPT !.store = StoredAuth_add(@, domain, username, password),
                        !.nAdds = @ + 1]
    /\ ret' = Ret("add", Ok(""))
    /\ UNCHANGED pc

\* store.save(): File::create truncates the file at auth_path(), then the
\* JSON of the store is written; a failure leaves the old file or a file
\* that is no JSON.
StoreSave ==
    /\ AuthOnly
    /\ \E ioOk \in BOOLEAN :
         IF ioOk
         THEN /\ cp' = [cp EXCEPT !.file = AuthFile(cp.store)]
              /\ ret' = Ret("save", Ok(""))
         ELSE /\ \E file \in {cp.file, Unreadable} : cp' = [cp EXCEPT !.file = file]
              /\ ret' = Ret("save", Err("UnknownIo"))
    /\ UNCHANGED pc

\* StoredAuth::load(): Self::from_path(&auth_path()?)
StoreLoad ==
    /\ AuthOnly
    /\ ret' = Ret("load", StoredAuth_from_path(cp.file))
    /\ UNCHANGED <<pc, cp>>

NextSave ==
    \/ \E h \in Hosts, u \in CredParts, p \in CredParts : StoreAdd(h, u, p)
    \/ StoreSave
    \/ StoreLoad

SpecSave == InitSave /\ [][NextSave]_vars

\* C30: stored credentials survive a save/load round-trip.  When the file
\* written by save is loaded, the load succeeds and the store it returns
\* holds, for every host, the entry that add stored and save wrote (for
\* every username and password, also those that contain ':').
C30_SaveLoadRoundTrip ==
    (ret.op = "load" /\ cp.file.ok) =>
        /\ ret.ok
        /\ \A h \in Hosts : EntryOf(ret.val, h) = EntryOf(cp.file.loaded, h)

=============================================================================
